---- MODULE Spec2Model ----
(***************************************************************************)
(* Task-management backend: the Task entity (domain/models.py), the        *)
(* TaskService use cases over the repository, unit of work and event       *)
(* publisher (application/services/task_service.py and the SQLAlchemy and  *)
(* Redis adapters), and the Redis stream consumer loop                     *)
(* (infrastructure/messaging/redis_consumer.py).                           *)
(*                                                                         *)
(* The specifications share the variables:                                 *)
(*   SpecTask      one Task entity under its own operations                *)
(*   Spec          TaskService use cases, one call per step                *)
(*   SpecConsumer  the consumer loop over a stream and its consumer group  *)
(*   FairConsumer  SpecConsumer with the loop's thread kept running        *)
(*   SpecRegistry  ConsumerRegistry.stop_all over two running consumers    *)
(*   SpecRequests  two requests arriving together at worker processes      *)
(*   SpecNotify    the requests publishing, the notification consumer on   *)
(*                 the stream                                              *)
(***************************************************************************)
EXTENDS Integers, Sequences, FiniteSets, TLC

VARIABLES
    clock,          \* datetime.utcnow(), one tick per operation
    task,           \* SpecTask: the Task entity
    res,            \* SpecTask: the last entity call and its outcome
    store,          \* Spec: the tasks table, committed rows by id
    uow,            \* Spec: SQLAlchemyUnitOfWork (_session and its history)
    stream,         \* the Redis stream "events": the records XADDed to it
    last,           \* Spec: the last use-case call, its calls and outcome
    group,          \* SpecConsumer: the consumer group's state in Redis
    cons,           \* SpecConsumer: the RedisStreamConsumer and its run() loop
    script,         \* SpecConsumer: how often the handler raises, per record
    log,            \* SpecConsumer: handler outcomes and acknowledgments, in order
    reg,            \* SpecRegistry: ConsumerRegistry.stop_all and its consumers
    req             \* SpecRequests: each request's place in its endpoint

entityVars == <<task, res>>
serviceVars == <<store, uow, stream, last>>
consumerVars == <<group, cons, script, log>>
registryVars == <<reg>>
requestVars == <<req>>
vars ==
    <<clock, task, res, store, uow, stream, last, group, cons, script, log,
      reg, req>>

----------------------------------------------------------------------------
(* Bounds *)

\* calls made on the entity (SpecTask) or on the service (Spec)
MaxClock == 3
\* records XADDed to the stream (SpecConsumer)
MaxMsgs == 2
\* times the handler raises for one record before it returns (SpecConsumer)
MaxFails == 1
\* tasks of a small table, and tasks a large table has beyond the limit of
\* get_task_statistics (SpecStats)
MaxFew == 2
MaxOver == 2

----------------------------------------------------------------------------
(* Text: a Python str is a sequence of characters; None is a value apart.  *)

None == <<"None">>

TxtEmpty == <<>>
TxtBlank == <<" ">>
TxtA == <<"a">>
TxtPadB == <<" ", "b", " ">>
TxtB == <<"b">>

\* A text with the characters JSON gives a meaning to
TxtJson == <<"{", "\"", "\\", "}">>

\* The text of a word of the program: a name, an enum value, the digits of
\* a number.  Its characters are not told apart.
Text(word) == <<word>>

RECURSIVE LStrip(_)
LStrip(s) ==
    IF s # <<>> /\ Head(s) = " " THEN LStrip(Tail(s)) ELSE s

RECURSIVE RStrip(_)
RStrip(s) ==
    IF s # <<>> /\ s[Len(s)] = " " THEN RStrip(SubSeq(s, 1, Len(s) - 1)) ELSE s

\* str.strip()
Strip(s) == LStrip(RStrip(s))

\* Python truthiness of an Optional[str]: None and "" are falsy
Truthy(s) == s # None /\ s # <<>>

----------------------------------------------------------------------------
(* domain/models.py *)

PENDING == "pending"
IN_PROGRESS == "in_progress"
COMPLETED == "completed"
CANCELLED == "cancelled"
TaskStatus == {PENDING, IN_PROGRESS, COMPLETED, CANCELLED}

TaskPriority == {"low", "medium", "high", "critical"}

\* completed_at: Optional[datetime] = None
NoTime == -1

NoError == "ok"
ValueError == "ValueError"

\* The outcome of a method call on the entity: the entity afterwards and the
\* exception raised, if any.
Returned(t) == [ok |-> TRUE, err |-> NoError, task |-> t]
Raised(e, t) == [ok |-> FALSE, err |-> e, task |-> t]

\* Task.create
TaskCreate(id, title, description, priority, assigned_to, now) ==
    [id |-> id,
     title |-> title,
     description |-> description,
     status |-> PENDING,
     priority |-> priority,
     created_at |-> now,
     updated_at |-> now,
     completed_at |-> NoTime,
     assigned_to |-> assigned_to]

\* Task.start with the guard let through a task already in progress
TaskStart_FromInProgress(t, now) ==
    IF t.status \in {COMPLETED, CANCELLED}
    THEN Raised(ValueError, t)
    ELSE Returned([t EXCEPT !.status = IN_PROGRESS, !.updated_at = now])

\* Task.start
TaskStart(t, now) ==
    IF t.status # PENDING
    THEN Raised(ValueError, t)
    ELSE Returned([t EXCEPT !.status = IN_PROGRESS, !.updated_at = now])

\* Task.complete reading the clock a second time for updated_at
TaskComplete_SecondClock(t, now) ==
    IF t.status \in {COMPLETED, CANCELLED}
    THEN Raised(ValueError, t)
    ELSE Returned([t EXCEPT !.status = COMPLETED, !.completed_at = now,
                            !.updated_at = now + 1])

\* Task.complete without the check for a cancelled task
TaskComplete_FromCancelled(t, now) ==
    IF t.status = COMPLETED
    THEN Raised(ValueError, t)
    ELSE Returned([t EXCEPT !.status = COMPLETED, !.completed_at = now,
                            !.updated_at = now])

\* Task.complete
TaskComplete(t, now) ==
    IF t.status = COMPLETED
    THEN Raised(ValueError, t)
    ELSE IF t.status = CANCELLED
    THEN Raised(ValueError, t)
    ELSE LET c == [t EXCEPT !.status = COMPLETED, !.completed_at = now]
         IN Returned([c EXCEPT !.updated_at = c.completed_at])

\* Task.cancel rejecting every terminal status
TaskCancel_RejectsCancelled(t, now) ==
    IF t.status \in {COMPLETED, CANCELLED}
    THEN Raised(ValueError, t)
    ELSE Returned([t EXCEPT !.status = CANCELLED, !.updated_at = now])

\* Task.cancel without its guard
TaskCancel_FromCompleted(t, now) ==
    Returned([t EXCEPT !.status = CANCELLED, !.updated_at = now])

\* Task.cancel
TaskCancel(t, now) ==
    IF t.status = COMPLETED
    THEN Raised(ValueError, t)
    ELSE Returned([t EXCEPT !.status = CANCELLED, !.updated_at = now])

\* Task.update_details
TaskUpdateDetails(t, title, description, now) ==
    LET t1 == IF Truthy(title) THEN [t EXCEPT !.title = title] ELSE t
        t2 == IF Truthy(description)
              THEN [t1 EXCEPT !.description = description] ELSE t1
    IN Returned([t2 EXCEPT !.updated_at = now])

\* Task.assign_to
TaskAssignTo(t, assignee, now) ==
    Returned([t EXCEPT !.assigned_to = assignee, !.updated_at = now])

----------------------------------------------------------------------------
(* domain/exceptions.py and the failures of the collaborators *)

EntityNotFound == "EntityNotFoundException"
BusinessRuleViolation == "BusinessRuleViolationException"
RuntimeError == "RuntimeError"
\* An exception out of repository.save / repository.delete, out of
\* event_publisher.publish, and out of Session.commit.
RepositoryError == "RepositoryError"
PublishError == "PublishError"
CommitError == "CommitError"

\* Where a collaborator raises during one use case. Each call is reached only
\* if the calls before it returned, so one point per use case covers every
\* combination: "commit" is the commit the use case calls, "exit_commit" the
\* one SQLAlchemyUnitOfWork.__exit__ calls.
FaultPoints == {"none", "save", "publish", "commit", "exit_commit"}
UpdateFaults == {"none", "save", "commit", "exit_commit"}
DeleteFaults == {"none", "delete", "commit", "exit_commit"}

----------------------------------------------------------------------------
(* infrastructure/database/repositories/task_repository.py                 *)
(* Every repository method opens a session of its own through              *)
(* DatabaseSession.get_session and commits it itself: store is what any    *)
(* later session reads.                                                    *)

TaskIds == {"t1", "t2"}

NoTask == [none |-> TRUE]
EmptyStore == [i \in {} |-> NoTask]

\* Optional[TaskStatus] / Optional[TaskPriority] filter left out
NoFilter == "None"

\* SQLAlchemyTaskRepository.get_by_id
RepoGetById(st, id) == IF id \in DOMAIN st THEN st[id] ELSE NoTask

\* SQLAlchemyTaskRepository.exists
RepoExists(st, id) == id \in DOMAIN st

\* The columns save assigns on a stored row
Assigned(t) ==
    [title |-> t.title, description |-> t.description, status |-> t.status,
     priority |-> t.priority, assigned_to |-> t.assigned_to,
     updated_at |-> t.updated_at, completed_at |-> t.completed_at]

\* TaskModel.updated_at, onupdate=datetime.utcnow: an UPDATE whose SET
\* clause has no updated_at, because the value assigned is the stored one
\* while another column changed, sets the column to the time of the flush
OnUpdate(row, t, now) ==
    IF Assigned(t) # Assigned(row) /\ t.updated_at = row.updated_at
    THEN now
    ELSE t.updated_at

\* SQLAlchemyTaskRepository.save: the row after the upsert at time now
SavedRow(st, t, now) ==
    IF t.id \in DOMAIN st
    THEN [st[t.id] EXCEPT !.title = t.title,
                          !.description = t.description,
                          !.status = t.status,
                          !.priority = t.priority,
                          !.assigned_to = t.assigned_to,
                          !.updated_at = OnUpdate(st[t.id], t, now),
                          !.completed_at = t.completed_at]
    ELSE t

\* SQLAlchemyTaskRepository.save: the table afterwards
RepoSave(st, t, now) ==
    [i \in DOMAIN st \cup {t.id} |->
        IF i = t.id THEN SavedRow(st, t, now) ELSE st[i]]

\* SQLAlchemyTaskRepository.delete: the table afterwards
RepoDelete(st, id) == [i \in DOMAIN st \ {id} |-> st[i]]

Matches(r, status, assigned_to, priority) ==
    /\ status = NoFilter \/ r.status = status
    /\ assigned_to = None \/ r.assigned_to = assigned_to
    /\ priority = NoFilter \/ r.priority = priority

\* count() leaving out the assigned_to filter
RepoCount_IgnoresAssignee(st, status, assigned_to) ==
    Cardinality({i \in DOMAIN st : Matches(st[i], status, None, NoFilter)})

\* SQLAlchemyTaskRepository.count
RepoCount(st, status, assigned_to) ==
    Cardinality({i \in DOMAIN st : Matches(st[i], status, assigned_to, NoFilter)})

RECURSIVE NotAfter(_, _)
\* A time from t on that no row is created after
NotAfter(rows, t) ==
    IF \E r \in rows : r.created_at > t THEN NotAfter(rows, 2 * t + 1) ELSE t

RECURSIVE AnyOrder(_)
\* Rows created at the same time: ORDER BY created_at leaves their order
\* to the database, so these are all the orders it can return them in
AnyOrder(rows) ==
    IF rows = {} THEN {<<>>}
    ELSE UNION {{<<r>> \o rest : rest \in AnyOrder(rows \ {r})} : r \in rows}

RECURSIVE NewestIn(_, _, _)
\* The orders of the rows, all created from lo to hi, with the latest
\* first
NewestIn(rows, lo, hi) ==
    IF rows = {} THEN {<<>>}
    ELSE IF lo = hi THEN AnyOrder(rows)
    ELSE LET mid == (lo + hi) \div 2
         IN {late \o early :
                late \in NewestIn({r \in rows : r.created_at > mid}, mid + 1, hi),
                early \in NewestIn({r \in rows : r.created_at <= mid}, lo, mid)}

\* ORDER BY created_at DESC: every order the database can return
NewestFirst(rows) == NewestIn(rows, 0, NotAfter(rows, 0))

\* get_all without its LIMIT
RepoGetAll_Unlimited(st, status, assigned_to, priority, limit, offset) ==
    NewestFirst({st[i] : i \in
        {j \in DOMAIN st : Matches(st[j], status, assigned_to, priority)}})

\* SQLAlchemyTaskRepository.get_all: every list the query can return,
\* which is one list unless rows are created at the same time
RepoGetAll(st, status, assigned_to, priority, limit, offset) ==
    {SubSeq(rows, offset + 1,
            IF offset + limit < Len(rows) THEN offset + limit ELSE Len(rows)) :
        rows \in NewestFirst({st[i] : i \in
                    {j \in DOMAIN st : Matches(st[j], status, assigned_to, priority)}})}

----------------------------------------------------------------------------
(* domain/events.py and infrastructure/messaging/redis_publisher.py.  The  *)
(* JSON text json.dumps writes is a text like any other: the braces,       *)
(* quotes, colons, commas and blanks of the encoding and the characters of *)
(* the strings it holds.                                                   *)

\* str(uuid): the canonical text of the id
Str(uuid) == Text(uuid)

\* datetime.isoformat(): the text of the time, to the microsecond
IsoFormat(t) == <<"T", ToString(t)>>

\* DomainEvent.to_dict
ToDict(class, event_id, occurred_at, data) ==
    [event_type |-> Text(class), event_id |-> Str(event_id),
     occurred_at |-> IsoFormat(occurred_at), data |-> data]

\* The name a use case publishes a variant under
EventName(class) ==
    CASE class = "TaskCreatedEvent" -> "task.created"
      [] class = "TaskStartedEvent" -> "task.started"
      [] class = "TaskCompletedEvent" -> "task.completed"
      [] class = "TaskCancelledEvent" -> "task.cancelled"
      [] class = "TaskAssignedEvent" -> "task.assigned"

\* The keys of the mappings to_dict and _get_event_data build, in the
\* order they insert them: the order json.dumps writes the members in
JsonKeys ==
    <<"event_type", "event_id", "occurred_at", "data", "task_id", "title",
      "assigned_to", "priority", "started_by", "completed_by", "cancelled_by",
      "reason", "assigned_by">>

\* A JSON string written with its characters as they are
JsonEscape_Raw(t) == t

RECURSIVE JsonEscape(_)
\* The characters of a text inside a JSON string: a backslash is written
\* before a quote and before a backslash
JsonEscape(t) ==
    IF t = <<>> THEN <<>>
    ELSE (IF Head(t) \in {"\"", "\\"} THEN <<"\\", Head(t)>> ELSE <<Head(t)>>)
         \o JsonEscape(Tail(t))

\* The JSON string of a text
JsonString(t) == <<"\"">> \o JsonEscape(t) \o <<"\"">>

RECURSIVE JsonObject(_), JsonMembers(_, _, _)
\* The members of the mapping d from its n-th key on, after a comma and a
\* blank unless the member is the first: the nested mapping is written as
\* an object, None as null, a text as a string
JsonMembers(d, n, first) ==
    IF n > Len(JsonKeys) THEN <<>>
    ELSE IF JsonKeys[n] \notin DOMAIN d THEN JsonMembers(d, n + 1, first)
    ELSE LET k == JsonKeys[n]
         IN (IF first THEN <<>> ELSE <<",", " ">>)
            \o JsonString(Text(k)) \o <<":", " ">>
            \o (IF k = "data" THEN JsonObject(d[k])
                ELSE IF d[k] = None THEN <<"null">>
                ELSE JsonString(d[k]))
            \o JsonMembers(d, n + 1, FALSE)

\* The JSON object of a mapping
JsonObject(d) == <<"{">> \o JsonMembers(d, 1, TRUE) \o <<"}">>

\* json.dumps(event_data): the JSON text of the mapping
JsonDumps(d) == JsonObject(d)

\* json.loads at position i of the text s: the value read and the position
\* after it, or ok = FALSE where json.loads raises JSONDecodeError
JsonFail == [ok |-> FALSE, v |-> None, i |-> 0]

JsonAt(v, i) == [ok |-> TRUE, v |-> v, i |-> i]

RECURSIVE SkipBlanks(_, _)
\* The first position from i on that holds no blank
SkipBlanks(s, i) ==
    IF i <= Len(s) /\ s[i] = " " THEN SkipBlanks(s, i + 1) ELSE i

RECURSIVE JsonStringAt(_, _, _)
\* The string whose characters begin at i, after its opening quote: it
\* ends at the next quote no backslash precedes; a backslash stands before
\* a quote, a backslash or a slash (no text of the model has it before one
\* of b, f, n, r, t, u)
JsonStringAt(s, i, acc) ==
    IF i > Len(s) THEN JsonFail
    ELSE IF s[i] = "\"" THEN JsonAt(acc, i + 1)
    ELSE IF s[i] = "\\"
    THEN IF i + 1 <= Len(s) /\ s[i + 1] \in {"\"", "\\", "/"}
         THEN JsonStringAt(s, i + 2, Append(acc, s[i + 1]))
         ELSE JsonFail
    ELSE JsonStringAt(s, i + 1, Append(acc, s[i]))

RECURSIVE JsonValueAt(_, _), JsonMembersAt(_, _, _), JsonItemsAt(_, _, _)
\* The value at i: a string, null, an object (a dict) or an array (a list);
\* no text of the model holds a number, true or false outside a string
JsonValueAt(s, i) ==
    LET j == SkipBlanks(s, i)
    IN IF j > Len(s) THEN JsonFail
       ELSE IF s[j] = "\"" THEN JsonStringAt(s, j + 1, <<>>)
       ELSE IF s[j] = "null" THEN JsonAt(None, j + 1)
       ELSE IF s[j] = "{"
       THEN LET k == SkipBlanks(s, j + 1)
            IN IF k <= Len(s) /\ s[k] = "}" THEN JsonAt(<<>>, k + 1)
               ELSE JsonMembersAt(s, k, <<>>)
       ELSE IF s[j] = "["
       THEN LET k == SkipBlanks(s, j + 1)
            IN IF k <= Len(s) /\ s[k] = "]" THEN JsonAt(<<>>, k + 1)
               ELSE JsonItemsAt(s, k, <<>>)
       ELSE JsonFail

\* The members of an object from the key at i on, added to the dict acc:
\* a key is a string (in the model: of one word), then a colon, a value,
\* and a comma or the closing brace
JsonMembersAt(s, i, acc) ==
    IF i > Len(s) \/ s[i] # "\"" THEN JsonFail
    ELSE LET key == JsonStringAt(s, i + 1, <<>>)
         IN IF ~key.ok \/ Len(key.v) # 1 THEN JsonFail
            ELSE LET c == SkipBlanks(s, key.i)
                 IN IF c > Len(s) \/ s[c] # ":" THEN JsonFail
                    ELSE LET val == JsonValueAt(s, c + 1)
                         IN IF ~val.ok THEN JsonFail
                            ELSE LET d == (key.v[1] :> val.v) @@ acc
                                     e == SkipBlanks(s, val.i)
                                 IN IF e > Len(s) THEN JsonFail
                                    ELSE IF s[e] = "}" THEN JsonAt(d, e + 1)
                                    ELSE IF s[e] = ","
                                    THEN JsonMembersAt(s, SkipBlanks(s, e + 1), d)
                                    ELSE JsonFail

\* The items of an array from the value at i on, added to the list acc
JsonItemsAt(s, i, acc) ==
    LET val == JsonValueAt(s, i)
    IN IF ~val.ok THEN JsonFail
       ELSE LET e == SkipBlanks(s, val.i)
            IN IF e > Len(s) THEN JsonFail
               ELSE IF s[e] = "]" THEN JsonAt(Append(acc, val.v), e + 1)
               ELSE IF s[e] = "," THEN JsonItemsAt(s, e + 1, Append(acc, val.v))
               ELSE JsonFail

\* json.loads(s): the value of the text, which holds one value and blanks
\* around it, or ok = FALSE for JSONDecodeError
JsonLoads(s) ==
    LET r == JsonValueAt(s, 1)
    IN IF r.ok /\ SkipBlanks(s, r.i) > Len(s) THEN [ok |-> TRUE, v |-> r.v]
       ELSE [ok |-> FALSE, v |-> None]

\* RedisEventPublisher.publish: the stream after XADD of the record
\* {"event_type": event_type, "data": json.dumps(event_data)}
XAdd(strm, event_type, event_data) ==
    Append(strm, [event_type |-> event_type, data |-> JsonDumps(event_data)])

----------------------------------------------------------------------------
(* infrastructure/database/unit_of_work.py and the template of a use case  *)
(* (application/services/task_service.py).                                 *)
(*                                                                         *)
(* A use case runs over a context: the exception in flight (err), the      *)
(* table, the stream, the calls made on the collaborators so far, the      *)
(* loaded entity, the value to return and the unit of work's _session.     *)
(* A step is skipped once an exception is in flight.                       *)

NoSession == "None"
OpenSession == "open"

Begin(st, strm, sess) ==
    [err |-> NoError, store |-> st, stream |-> strm, calls |-> <<>>,
     task |-> NoTask, ret |-> NoTask, session |-> sess, entered |-> FALSE]

Did(c, call) == [c EXCEPT !.calls = Append(@, call)]

Raise(c, e) == [c EXCEPT !.err = e]

\* SQLAlchemyUnitOfWork.commit: Session.commit(), rolled back if it raises
UowCommit(c, fails) ==
    IF c.session = NoSession THEN Raise(c, RuntimeError)
    ELSE IF fails
    THEN Raise(Did(Did(c, "session.commit raised"), "session.rollback"),
               CommitError)
    ELSE Did(c, "session.commit")

\* SQLAlchemyUnitOfWork.rollback
UowRollback(c) ==
    IF c.session = NoSession THEN Raise(c, RuntimeError)
    ELSE Did(c, "session.rollback")

\* SQLAlchemyUnitOfWork.__enter__
UowEnter(c) ==
    IF c.session # NoSession
    THEN Raise(c, RuntimeError)
    ELSE [Did(c, "uow.__enter__") EXCEPT !.session = OpenSession,
                                         !.entered = TRUE]

\* __exit__ without its finally clause: a commit that raises skips close
UowExit_NoFinally(c, f) ==
    IF ~c.entered \/ c.session = NoSession THEN c
    ELSE LET ended == IF c.err = NoError
                      THEN UowCommit(c, f = "exit_commit")
                      ELSE UowRollback(c)
         IN IF c.err = NoError /\ ended.err # NoError THEN ended
            ELSE [Did(ended, "session.close") EXCEPT !.session = NoSession]

\* SQLAlchemyUnitOfWork.__exit__, which runs when the with block is left,
\* unless __enter__ raised
UowExit(c, f) ==
    IF ~c.entered \/ c.session = NoSession THEN c
    ELSE LET ended == IF c.err = NoError
                      THEN UowCommit(c, f = "exit_commit")
                      ELSE UowRollback(c)
         IN [Did(ended, "session.close") EXCEPT !.session = NoSession]

\* self.unit_of_work.commit() as the last statement of a use case
CommitStep(c, f) ==
    IF c.err # NoError THEN c ELSE UowCommit(c, f = "commit")

\* TaskService.get_task
GetTask(c, task_id) ==
    IF c.err # NoError THEN c
    ELSE LET d == Did(c, "repo.get_by_id")
         IN IF RepoGetById(c.store, task_id) = NoTask
            THEN Raise(d, EntityNotFound)
            ELSE [d EXCEPT !.task = RepoGetById(c.store, task_id)]

\* The entity method a use case calls on the loaded task
EntityCall(t, method, arg, now) ==
    CASE method = "start" -> TaskStart(t, now)
      [] method = "complete" -> TaskComplete(t, now)
      [] method = "cancel" -> TaskCancel(t, now)
      [] method = "assign_to" -> TaskAssignTo(t, arg.assignee, now)
      [] method = "update_details" ->
            TaskUpdateDetails(t, arg.title, arg.description, now)

\* task.<method>(...) inside a use case
Mutate(c, method, arg, now) ==
    IF c.err # NoError THEN c
    ELSE LET r == EntityCall(c.task, method, arg, now)
         IN IF r.ok THEN [c EXCEPT !.task = r.task]
            ELSE [c EXCEPT !.task = r.task, !.err = r.err]

\* saved_task = self.task_repository.save(task)
SaveStep(c, now, f) ==
    IF c.err # NoError THEN c
    ELSE IF f = "save" THEN Raise(Did(c, "repo.save"), RepositoryError)
    ELSE [Did(c, "repo.save") EXCEPT !.store = RepoSave(c.store, c.task, now),
                                      !.ret = SavedRow(c.store, c.task, now)]

\* uuid4() for an event: an id no record of the stream carries
NewEventId(strm) == ToString(Len(strm) + 1)

\* The event a use case constructs after the save, as event.to_dict() gives
\* it: a is the use case's arguments, c.ret its saved_task
EventOf(c, event_type, a, now) ==
    CASE event_type = "task.created" ->
            ToDict("TaskCreatedEvent", NewEventId(c.stream), now,
                   [task_id |-> Str(c.ret.id), title |-> c.ret.title,
                    assigned_to |-> c.ret.assigned_to,
                    priority |-> Text(c.ret.priority)])
      [] event_type = "task.started" ->
            ToDict("TaskStartedEvent", NewEventId(c.stream), now,
                   [task_id |-> Str(a.task_id), started_by |-> a.user_id])
      [] event_type = "task.completed" ->
            ToDict("TaskCompletedEvent", NewEventId(c.stream), now,
                   [task_id |-> Str(a.task_id), completed_by |-> a.user_id])
      [] event_type = "task.cancelled" ->
            ToDict("TaskCancelledEvent", NewEventId(c.stream), now,
                   [task_id |-> Str(a.task_id), cancelled_by |-> a.user_id,
                    reason |-> a.reason])
      [] event_type = "task.assigned" ->
            ToDict("TaskAssignedEvent", NewEventId(c.stream), now,
                   [task_id |-> Str(a.task_id), assigned_to |-> a.assignee,
                    assigned_by |-> a.user_id])

\* publish sending the record twice
PublishStep_Twice(c, event_type, a, now, f) ==
    IF c.err # NoError THEN c
    ELSE IF f = "publish" THEN Raise(Did(c, "publisher.publish"), PublishError)
    ELSE [Did(c, "publisher.publish") EXCEPT
              !.stream = XAdd(XAdd(c.stream, Text(event_type),
                                   EventOf(c, event_type, a, now)),
                              Text(event_type),
                              EventOf(c, event_type, a, now))]

\* self.event_publisher.publish(event_type, event.to_dict())
PublishStep(c, event_type, a, now, f) ==
    IF c.err # NoError THEN c
    ELSE IF f = "publish" THEN Raise(Did(c, "publisher.publish"), PublishError)
    ELSE [Did(c, "publisher.publish") EXCEPT
              !.stream = XAdd(c.stream, Text(event_type),
                              EventOf(c, event_type, a, now))]

----------------------------------------------------------------------------
(* application/services/task_service.py: the use cases.  c is the context  *)
(* at the call, now the time of the call, f where a collaborator raises.   *)

\* not s: a whitespace-only text passes
Blank_OnlyEmpty(s) == ~Truthy(s)

\* not s or not s.strip()
Blank(s) == ~Truthy(s) \/ Strip(s) = <<>>

NoArg == [task_id |-> ""]

\* Task.create(...) given the texts as they came
CreateStep_NoStrip(c, id, title, description, priority, assigned_to, now) ==
    IF c.err # NoError THEN c
    ELSE [c EXCEPT !.task = TaskCreate(id, title, description, priority,
                                       assigned_to, now)]

\* Task.create(...) inside create_task; id is its uuid4()
CreateStep(c, id, title, description, priority, assigned_to, now) ==
    IF c.err # NoError THEN c
    ELSE [c EXCEPT !.task = TaskCreate(id, Strip(title), Strip(description),
                                       priority, assigned_to, now)]

\* create_task checking the title only
create_task_TitleOnly(c, title, description, priority, assigned_to, id, now, f) ==
    IF Blank(title) THEN Raise(c, BusinessRuleViolation)
    ELSE UowExit(
           CommitStep(
             PublishStep(
               SaveStep(
                 CreateStep(UowEnter(c), id, title, description, priority,
                            assigned_to, now), now,
                 f),
               "task.created", NoArg, now, f),
             f),
           f)

\* TaskService.create_task
create_task(c, title, description, priority, assigned_to, id, now, f) ==
    IF Blank(title) THEN Raise(c, BusinessRuleViolation)
    ELSE IF Blank(description) THEN Raise(c, BusinessRuleViolation)
    ELSE UowExit(
           CommitStep(
             PublishStep(
               SaveStep(
                 CreateStep(UowEnter(c), id, title, description, priority,
                            assigned_to, now), now,
                 f),
               "task.created", NoArg, now, f),
             f),
           f)

\* start_task publishing before it saves
start_task_PublishFirst(c, task_id, user_id, now, f) ==
    UowExit(
      CommitStep(
        SaveStep(
          PublishStep(Mutate(GetTask(UowEnter(c), task_id), "start", NoArg, now),
                      "task.started",
                      [task_id |-> task_id, user_id |-> user_id], now, f), now,
          f),
        f),
      f)

\* TaskService.start_task
start_task(c, task_id, user_id, now, f) ==
    UowExit(
      CommitStep(
        PublishStep(
          SaveStep(Mutate(GetTask(UowEnter(c), task_id), "start", NoArg, now), now, f),
          "task.started", [task_id |-> task_id, user_id |-> user_id], now, f),
        f),
      f)

\* TaskService.complete_task
complete_task(c, task_id, user_id, now, f) ==
    UowExit(
      CommitStep(
        PublishStep(
          SaveStep(Mutate(GetTask(UowEnter(c), task_id), "complete", NoArg, now), now, f),
          "task.completed", [task_id |-> task_id, user_id |-> user_id], now, f),
        f),
      f)

\* TaskService.cancel_task
cancel_task(c, task_id, reason, user_id, now, f) ==
    UowExit(
      CommitStep(
        PublishStep(
          SaveStep(Mutate(GetTask(UowEnter(c), task_id), "cancel", NoArg, now), now, f),
          "task.cancelled",
          [task_id |-> task_id, user_id |-> user_id, reason |-> reason], now, f),
        f),
      f)

\* TaskService.assign_task
assign_task(c, task_id, assignee, user_id, now, f) ==
    IF Blank(assignee) THEN Raise(c, BusinessRuleViolation)
    ELSE UowExit(
           CommitStep(
             PublishStep(
               SaveStep(
                 Mutate(GetTask(UowEnter(c), task_id), "assign_to",
                        [assignee |-> Strip(assignee)], now), now,
                 f),
               "task.assigned",
               [task_id |-> task_id, assignee |-> assignee, user_id |-> user_id],
               now, f),
             f),
           f)

\* update_task's checks: s is not None and not s.strip()
ValidateStep(c, title, description) ==
    IF c.err # NoError THEN c
    ELSE IF title # None /\ Strip(title) = <<>> THEN Raise(c, BusinessRuleViolation)
    ELSE IF description # None /\ Strip(description) = <<>>
    THEN Raise(c, BusinessRuleViolation)
    ELSE c

\* s.strip() if s else None
StripOrNone(s) == IF Truthy(s) THEN Strip(s) ELSE None

\* TaskService.update_task
update_task(c, task_id, title, description, now, f) ==
    UowExit(
      CommitStep(
        SaveStep(
          Mutate(ValidateStep(GetTask(UowEnter(c), task_id), title, description),
                 "update_details",
                 [title |-> StripOrNone(title),
                  description |-> StripOrNone(description)],
                 now), now,
          f),
        f),
      f)

\* exists() asked and its answer ignored
ExistsStep_Skipped(c, task_id) ==
    IF c.err # NoError THEN c ELSE Did(c, "repo.exists")

\* if not self.task_repository.exists(task_id): raise EntityNotFoundException
ExistsStep(c, task_id) ==
    IF c.err # NoError THEN c
    ELSE IF RepoExists(c.store, task_id) THEN Did(c, "repo.exists")
    ELSE Raise(Did(c, "repo.exists"), EntityNotFound)

\* deleted = self.task_repository.delete(task_id)
DeleteStep(c, task_id, f) ==
    IF c.err # NoError THEN c
    ELSE IF f = "delete" THEN Raise(Did(c, "repo.delete"), RepositoryError)
    ELSE [Did(c, "repo.delete") EXCEPT !.store = RepoDelete(c.store, task_id),
                                        !.ret = RepoExists(c.store, task_id)]

\* TaskService.delete_task
delete_task(c, task_id, f) ==
    UowExit(CommitStep(DeleteStep(ExistsStep(UowEnter(c), task_id), task_id, f), f), f)

\* TaskService.list_tasks: its outcomes, one for each list get_all can
\* return
list_tasks(c, status, assigned_to, priority, limit, offset) ==
    {[Did(c, "repo.get_all") EXCEPT !.ret = rows] :
        rows \in RepoGetAll(c.store, status, assigned_to, priority, limit, offset)}

\* limit=1000 of get_task_statistics
StatsLimit == 1000

\* The tally of the priorities of a list of tasks
Tally(rows) ==
    [p \in {rows[k].priority : k \in DOMAIN rows} |->
        Cardinality({k \in DOMAIN rows : rows[k].priority = p})]

\* The repository calls of get_task_statistics: count for the total, count
\* once for each member of TaskStatus, then get_all
StatisticsCalls ==
    <<"repo.count">> \o [k \in 1..Cardinality(TaskStatus) |-> "repo.count"]
        \o <<"repo.get_all">>

\* TaskService.get_task_statistics: its outcomes, one for each list
\* get_all can return
get_task_statistics(c, assigned_to) ==
    {[c EXCEPT
        !.calls = @ \o StatisticsCalls,
        !.ret = [total |-> RepoCount(c.store, NoFilter, assigned_to),
                 by_status |->
                    [s \in {x \in TaskStatus : RepoCount(c.store, x, assigned_to) > 0}
                        |-> RepoCount(c.store, s, assigned_to)],
                 by_priority |-> Tally(rows)]] :
        rows \in RepoGetAll(c.store, NoFilter, assigned_to, NoFilter,
                            StatsLimit, 0)}

----------------------------------------------------------------------------
(* Spec: the TaskService of the application, one use case per step.        *)

NoCall ==
    [op |-> "none", id |-> "", args |-> NoArg, err |-> NoError, calls |-> <<>>,
     ret |-> NoTask, entered |-> FALSE, pre |-> EmptyStore, preLen |-> 0]

ServiceIdle ==
    /\ store = EmptyStore
    /\ uow = [session |-> NoSession]
    /\ stream = <<>>
    /\ last = NoCall

Titles == {TxtEmpty, TxtBlank, TxtPadB}
Descriptions == {TxtEmpty, TxtBlank, TxtA}
Priorities == {"low", "high"}
CreateAssignees == {None, TxtA}
Assignees == {TxtEmpty, TxtBlank, TxtPadB}
UserIds == {None, TxtA}
Callers == {TxtA}
Reasons == {None}
UpdateTexts == {None, TxtBlank, TxtPadB}

\* One use case, from call to return or raise, at time clock + 1; args is
\* what the caller passed besides the task id.
UseCase(op, id, args, c) ==
    /\ clock < MaxClock
    /\ clock' = clock + 1
    /\ store' = c.store
    /\ stream' = c.stream
    /\ uow' = [session |-> c.session]
    /\ last' = [op |-> op, id |-> id, args |-> args, err |-> c.err,
                calls |-> c.calls, ret |-> c.ret, entered |-> c.entered,
                pre |-> store, preLen |-> Len(stream)]
    /\ UNCHANGED <<entityVars, consumerVars, registryVars, requestVars>>

Ctx == Begin(store, stream, uow.session)

CreateTask ==
    \E title \in Titles, description \in Descriptions, priority \in Priorities,
       assigned_to \in CreateAssignees, f \in FaultPoints :
        /\ TaskIds \ DOMAIN store # {}
        /\ LET id == CHOOSE i \in TaskIds : i \notin DOMAIN store
           IN UseCase("create_task", id,
                      [title |-> title, description |-> description,
                       priority |-> priority, assigned_to |-> assigned_to],
                      create_task(Ctx, title, description, priority, assigned_to,
                                  id, clock + 1, f))

StartTask ==
    \E id \in TaskIds, user_id \in UserIds, f \in FaultPoints :
        UseCase("start_task", id, [user_id |-> user_id],
                start_task(Ctx, id, user_id, clock + 1, f))

CompleteTask ==
    \E id \in TaskIds, user_id \in Callers, f \in FaultPoints :
        UseCase("complete_task", id, [user_id |-> user_id],
                complete_task(Ctx, id, user_id, clock + 1, f))

CancelTask ==
    \E id \in TaskIds, reason \in Reasons, user_id \in UserIds, f \in FaultPoints :
        UseCase("cancel_task", id, [reason |-> reason, user_id |-> user_id],
                cancel_task(Ctx, id, reason, user_id, clock + 1, f))

AssignTask ==
    \E id \in TaskIds, assignee \in Assignees, user_id \in Callers,
       f \in FaultPoints :
        UseCase("assign_task", id, [assignee |-> assignee, user_id |-> user_id],
                assign_task(Ctx, id, assignee, user_id, clock + 1, f))

UpdateTask ==
    \E id \in TaskIds, title \in UpdateTexts, description \in UpdateTexts,
       f \in UpdateFaults :
        UseCase("update_task", id, [title |-> title, description |-> description],
                update_task(Ctx, id, title, description, clock + 1, f))

DeleteTask ==
    \E id \in TaskIds, f \in DeleteFaults :
        UseCase("delete_task", id, NoArg, delete_task(Ctx, id, f))

ListTasks ==
    \E status \in {NoFilter, PENDING}, assigned_to \in {None, TxtA},
       limit \in {1, 100} :
        \E c \in list_tasks(Ctx, status, assigned_to, NoFilter, limit, 0) :
            UseCase("list_tasks", "",
                    [status |-> status, assigned_to |-> assigned_to,
                     limit |-> limit], c)

GetTaskStatistics ==
    \E assigned_to \in {None, TxtA} :
        \E c \in get_task_statistics(Ctx, assigned_to) :
            UseCase("get_task_statistics", "", [assigned_to |-> assigned_to], c)

\* The names under which consumers are registered, in registration order
Names == <<"c1", "c2">>

\* The requests that arrive together
Requests == {"R1", "R2"}

RegistryIdle ==
    reg = [pc |-> "none", i |-> 0, signalled |-> {}, cancelled |-> FALSE,
           must_cancel |-> FALSE,
           c |-> [k \in DOMAIN Names |->
                     [running |-> FALSE, client |-> "None", pc |-> "none"]]]

RequestsIdle ==
    req = [r \in Requests |->
              [pc |-> "none", err |-> NoError, ops |-> <<>>, op |-> "none",
               proc |-> "none", task |-> NoTask, existing |-> NoTask,
               event |-> NoTask, deleted |-> FALSE, http |-> 0]]

ConsumerIdle ==
    /\ group = [last_delivered |-> 0, pending |-> {}]
    /\ cons = [running |-> FALSE, pc |-> "idle", batch |-> <<>>]
    /\ script = <<>>
    /\ log = <<>>

EntityIdle ==
    /\ task = NoTask
    /\ res = [op |-> "none"]

Init ==
    /\ clock = 0
    /\ EntityIdle
    /\ ServiceIdle
    /\ ConsumerIdle
    /\ RegistryIdle
    /\ RequestsIdle

Next ==
    \/ CreateTask
    \/ StartTask
    \/ CompleteTask
    \/ CancelTask
    \/ AssignTask
    \/ UpdateTask
    \/ DeleteTask
    \/ ListTasks
    \/ GetTaskStatistics

Spec == Init /\ [][Next]_vars

----------------------------------------------------------------------------
(* infrastructure/messaging/redis_consumer.py: RedisStreamConsumer.run over *)
(* the stream and its consumer group.  A record's id is its place in the    *)
(* stream.  The group keeps the id of the last record it delivered and the  *)
(* pending entries: the records delivered and not acknowledged.             *)

\* count=10 of xreadgroup
BatchCount == 10

Min(a, b) == IF a < b THEN a ELSE b

\* xreadgroup(group, consumer, {stream_key: ">"}, count=10): the ids of the
\* records never delivered to a consumer of the group, oldest first
XReadGroupNew(strm, g) ==
    [k \in 1..Min(BatchCount, Len(strm) - g.last_delivered) |->
        g.last_delivered + k]

\* The group after that read: the records are delivered and pending
Delivered(g, ids) ==
    [last_delivered |-> IF ids = <<>> THEN g.last_delivered ELSE ids[Len(ids)],
     pending |-> g.pending \cup {ids[k] : k \in DOMAIN ids}]

\* xack(stream_key, group, message_id)
XAck(g, id) == [g EXCEPT !.pending = @ \ {id}]

\* process_message invocations made for record id so far
Invocations(lg, id) ==
    Cardinality({k \in DOMAIN lg : lg[k].id = id /\ lg[k].ev \in {"ok", "raised"}})

\* acknowledgments made for record id so far
Acks(lg, id) ==
    Cardinality({k \in DOMAIN lg : lg[k].id = id /\ lg[k].ev = "ack"})

\* The handler: it raises for record id on its first scr[id] invocations
ProcessMessage(scr, lg, id) ==
    IF Invocations(lg, id) < scr[id] THEN "raised" ELSE "ok"

\* xack in a finally clause: reached whether or not the handler raised
AfterProcess_AckAlways(outcome) == "ack"

\* The try block of run(): xack follows process_message only if it returned
AfterProcess(outcome) == IF outcome = "ok" THEN "ack" ELSE "next"

\* After initialize() and start_all(): the group exists, run() is about to
\* start in the executor.
InitConsumer ==
    /\ clock = 0
    /\ EntityIdle
    /\ ServiceIdle
    /\ group = [last_delivered |-> 0, pending |-> {}]
    /\ cons = [running |-> FALSE, pc |-> "start", batch |-> <<>>]
    /\ script = <<>>
    /\ log = <<>>
    /\ RegistryIdle
    /\ RequestsIdle

Others == <<clock, entityVars, store, uow, last, registryVars, requestVars>>

\* A publisher XADDs a record; the handler will raise fails times for it.
PublishRecord ==
    \E fails \in 0..MaxFails :
        /\ Len(stream) < MaxMsgs
        /\ stream' = XAdd(stream, Text("task.created"),
                          ToDict("TaskCreatedEvent", NewEventId(stream), 0,
                                 [task_id |-> Str("t1"), title |-> TxtA,
                                  assigned_to |-> None,
                                  priority |-> Text("high")]))
        /\ script' = Append(script, fails)
        /\ UNCHANGED <<group, cons, log, Others>>

\* run(): self._running = True
RunStart ==
    /\ cons.pc = "start"
    /\ cons' = [cons EXCEPT !.running = TRUE, !.pc = "loop"]
    /\ UNCHANGED <<stream, group, script, log, Others>>

\* while self._running:
LoopTest ==
    /\ cons.pc = "loop"
    /\ cons' = [cons EXCEPT !.pc = IF cons.running THEN "read" ELSE "done"]
    /\ UNCHANGED <<stream, group, script, log, Others>>

\* xreadgroup returns (an empty list once block_ms has passed)
ReadReturns ==
    /\ cons.pc = "read"
    /\ LET ids == XReadGroupNew(stream, group)
       IN /\ group' = Delivered(group, ids)
          /\ cons' = [cons EXCEPT !.batch = ids,
                                  !.pc = IF ids = <<>> THEN "loop" ELSE "process"]
    /\ UNCHANGED <<stream, script, log, Others>>

\* xreadgroup raises and nothing catches it: run() ends
ReadRaises_Fatal ==
    /\ cons.pc = "read"
    /\ cons' = [cons EXCEPT !.pc = "done"]
    /\ UNCHANGED <<stream, group, script, log, Others>>

\* xreadgroup raises: logged, time.sleep(1) if still running, next iteration
ReadRaises ==
    /\ cons.pc = "read"
    /\ cons' = [cons EXCEPT !.pc = "loop"]
    /\ UNCHANGED <<stream, group, script, log, Others>>

\* The rest of the batch once its first record is dealt with
NextRecord(c) ==
    [c EXCEPT !.batch = Tail(@),
              !.pc = IF Tail(c.batch) = <<>> THEN "loop" ELSE "process"]

\* _parse_message and process_message for the next record of the batch
Process ==
    /\ cons.pc = "process"
    /\ LET id == Head(cons.batch)
           outcome == ProcessMessage(script, log, id)
       IN /\ log' = Append(log, [ev |-> outcome, id |-> id])
          /\ cons' = IF AfterProcess(outcome) = "ack"
                     THEN [cons EXCEPT !.pc = "ack"]
                     ELSE NextRecord(cons)
    /\ UNCHANGED <<stream, group, script, Others>>

\* xack returns
AckReturns ==
    /\ cons.pc = "ack"
    /\ group' = XAck(group, Head(cons.batch))
    /\ log' = Append(log, [ev |-> "ack", id |-> Head(cons.batch)])
    /\ cons' = NextRecord(cons)
    /\ UNCHANGED <<stream, script, Others>>

\* xack raises: logged by the inner except, the record stays pending
AckRaises ==
    /\ cons.pc = "ack"
    /\ log' = Append(log, [ev |-> "ack raised", id |-> Head(cons.batch)])
    /\ cons' = NextRecord(cons)
    /\ UNCHANGED <<stream, group, script, Others>>

\* RedisStreamConsumer.stop, from another thread
Stop ==
    /\ cons.running
    /\ cons' = [cons EXCEPT !.running = FALSE]
    /\ UNCHANGED <<stream, group, script, log, Others>>

ConsumerThread ==
    RunStart \/ LoopTest \/ ReadReturns \/ ReadRaises \/ Process
        \/ AckReturns \/ AckRaises

NextConsumer == PublishRecord \/ ConsumerThread \/ Stop

SpecConsumer == InitConsumer /\ [][NextConsumer]_vars

\* The executor thread running run() keeps being scheduled, and the broker
\* is not unreachable for ever: a read and an acknowledgment that are tried
\* again and again eventually return.
FairConsumer ==
    /\ SpecConsumer
    /\ WF_vars(ConsumerThread)
    /\ SF_vars(ReadReturns)
    /\ SF_vars(AckReturns)

----------------------------------------------------------------------------
(* presentation/consumers/task_notification_consumer.py: the handler of    *)
(* the TaskNotificationConsumer.                                            *)

\* Whether _parse_message loads the value: it begins with a brace or a
\* bracket and json.loads does not raise
Loaded(value) ==
    /\ value # <<>>
    /\ Head(value) \in {"{", "["}
    /\ JsonLoads(value).ok

\* _parse_message for one value: what json.loads returns for a value it
\* loads, the value as it is for any other
ParseValue(value) ==
    IF Loaded(value) THEN JsonLoads(value).v ELSE value

\* _parse_message(data) for the fields of a record
ParseMessage(fields) ==
    [key \in DOMAIN fields |-> ParseValue(fields[key])]

\* The if / elif chain of process_message: the formatter for an event
\* type, "none" for the else branch that only logs a warning
HandlerFor(event_type) ==
    CASE event_type = Text("TaskCreatedEvent") -> "_handle_task_created"
      [] event_type = Text("TaskCompletedEvent") -> "_handle_task_completed"
      [] event_type = Text("TaskAssignedEvent") -> "_handle_task_assigned"
      [] event_type = Text("TaskCancelledEvent") -> "_handle_task_cancelled"
      [] OTHER -> "none"

\* run() for the record id with the given fields: _parse_message, then
\* TaskNotificationConsumer.process_message up to its send_message call,
\* with the calls it makes.  data["data"] is a str when _parse_message did
\* not load it, and json.loads raises for one that is not JSON; the
\* formatter takes the task id from the "data" entry of the mapping
\* to_dict() built.
NotifyProcessMessage(id, fields) ==
    LET data == ParseMessage(fields)
        event_type == data.event_type
        event_data == IF Loaded(fields.data) THEN [ok |-> TRUE, v |-> data.data]
                      ELSE JsonLoads(data.data)
    IN IF ~event_data.ok THEN [raised |-> TRUE, sends |-> <<>>]
       ELSE IF HandlerFor(event_type) = "none"
       THEN [raised |-> FALSE, sends |-> <<>>]
       ELSE [raised |-> FALSE,
             sends |-> <<[ev |-> "sent", id |-> id,
                          handler |-> HandlerFor(event_type),
                          task_id |-> event_data.v.data.task_id]>>]

----------------------------------------------------------------------------
(* infrastructure/messaging/redis_consumer.py: ConsumerRegistry.stop_all    *)
(* on the event loop, while the run() of each registered consumer goes on   *)
(* in its executor thread.  reg.c[k] is the consumer registered k-th: its   *)
(* _running flag, its _client (open, closed by close(), or None) and the    *)
(* place of its run().  stop_all is called by the lifespan of main.py when  *)
(* the application shuts down, and by worker.py after its signal handler    *)
(* has cancelled the tasks (reg.cancelled).  reg.must_cancel: a signal has  *)
(* asked to cancel worker.main since it entered its finally clause.         *)

RegSet(k, c) == [reg EXCEPT !.c[k] = c]

RegOthers == <<clock, entityVars, serviceVars, consumerVars, requestVars>>

\* After start_all(): every consumer is initialized and the task awaiting
\* its run() is created.
InitRegistry ==
    /\ clock = 0
    /\ EntityIdle
    /\ ServiceIdle
    /\ ConsumerIdle
    /\ RequestsIdle
    /\ reg = [pc |-> "serving", i |-> 0, signalled |-> {}, cancelled |-> FALSE,
              must_cancel |-> FALSE,
              c |-> [k \in DOMAIN Names |->
                        [running |-> FALSE, client |-> "open", pc |-> "start"]]]

\* run() begins: if self._client is None: raise RuntimeError
RegRunStart ==
    \E k \in DOMAIN Names :
        /\ reg.c[k].pc = "start"
        /\ reg' = RegSet(k, [reg.c[k] EXCEPT
                                !.pc = IF reg.c[k].client = "None"
                                       THEN "done" ELSE "set"])
        /\ UNCHANGED RegOthers

\* self._running = True
RegRunSet ==
    \E k \in DOMAIN Names :
        /\ reg.c[k].pc = "set"
        /\ reg' = RegSet(k, [reg.c[k] EXCEPT !.running = TRUE, !.pc = "loop"])
        /\ UNCHANGED RegOthers

\* while self._running:
RegLoopTest ==
    \E k \in DOMAIN Names :
        /\ reg.c[k].pc = "loop"
        /\ reg' = RegSet(k, [reg.c[k] EXCEPT
                                !.pc = IF reg.c[k].running THEN "read" ELSE "done"])
        /\ UNCHANGED RegOthers

\* self._client.xreadgroup(...) returns records, or returns none or
\* raises.  A client that close() has closed still serves the call, with
\* a connection it opens again; on None the call raises AttributeError,
\* which the outer except clause logs.
RegRead ==
    \E k \in DOMAIN Names, got \in BOOLEAN :
        /\ reg.c[k].pc = "read"
        /\ reg' = RegSet(k, [reg.c[k] EXCEPT
                                !.pc = IF got /\ reg.c[k].client # "None"
                                       THEN "handler" ELSE "loop"])
        /\ UNCHANGED RegOthers

\* process_message returns or raises, for a record that is or is not the
\* last of its batch
RegHandler ==
    \E k \in DOMAIN Names, ok \in BOOLEAN, more \in BOOLEAN :
        /\ reg.c[k].pc = "handler"
        /\ reg' = RegSet(k, [reg.c[k] EXCEPT
                                !.pc = IF ok THEN "ack"
                                       ELSE IF more THEN "handler" ELSE "loop"])
        /\ UNCHANGED RegOthers

\* xack returns or raises
RegAck ==
    \E k \in DOMAIN Names, more \in BOOLEAN :
        /\ reg.c[k].pc = "ack"
        /\ reg' = RegSet(k, [reg.c[k] EXCEPT
                                !.pc = IF more THEN "handler" ELSE "loop"])
        /\ UNCHANGED RegOthers

\* worker.handle_shutdown on SIGTERM or SIGINT: task.cancel() for every
\* task of the loop.  On the first signal worker.main is in its sleep: a
\* consumer task that has not begun run_async never calls run(), and one
\* that awaits run() in the executor ends cancelled while its run() goes on
\* in the executor thread.  On a later signal the consumer tasks are done
\* already and worker.main, by then inside stop_all, is asked to cancel:
\* the CancelledError is raised at its next await, the gather.  After the
\* gather stop_all awaits nothing and a signal changes nothing.
HandleShutdown ==
    \/ \E began \in SUBSET {k \in DOMAIN Names : reg.c[k].pc = "start"} :
          /\ reg.pc = "serving"
          /\ reg' = [reg EXCEPT
                        !.pc = "cancelled",
                        !.cancelled = TRUE,
                        !.c = [k \in DOMAIN Names |->
                                  IF reg.c[k].pc = "start" /\ k \notin began
                                  THEN [reg.c[k] EXCEPT !.pc = "done"]
                                  ELSE reg.c[k]]]
          /\ UNCHANGED RegOthers
    \/ /\ reg.cancelled
       /\ reg.pc \in {"signal", "gather"}
       /\ reg' = [reg EXCEPT !.must_cancel = TRUE]
       /\ UNCHANGED RegOthers

\* stop_all() is called: by the lifespan of main.py after its yield, or by
\* the finally clause of worker.main once handle_shutdown cancelled it
StopAllCalled ==
    /\ reg.pc \in {"serving", "cancelled"}
    /\ reg' = [reg EXCEPT !.pc = "signal", !.i = 1]
    /\ UNCHANGED RegOthers

\* for consumer in self._consumers.values(): consumer.stop()
StopAllSignal ==
    /\ reg.pc = "signal"
    /\ reg' = [reg EXCEPT !.c[reg.i].running = FALSE,
                          !.signalled = @ \cup {reg.i},
                          !.i = IF reg.i = Len(Names) THEN 0 ELSE reg.i + 1,
                          !.pc = IF reg.i = Len(Names) THEN "gather" ELSE "signal"]
    /\ UNCHANGED RegOthers

\* await asyncio.gather(*self._tasks.values(), return_exceptions=True):
\* it returns once every task is done, which a task is when its run() has
\* returned or raised, or when it was cancelled; it raises CancelledError,
\* and stop_all ends without closing a consumer, when worker.main was asked
\* to cancel
StopAllGather ==
    /\ reg.pc = "gather"
    /\ \A k \in DOMAIN Names : reg.c[k].pc = "done" \/ reg.cancelled
    /\ reg' = IF reg.must_cancel
              THEN [reg EXCEPT !.pc = "aborted", !.must_cancel = FALSE]
              ELSE [reg EXCEPT !.pc = "close", !.i = 1]
    /\ UNCHANGED RegOthers

\* for consumer in self._consumers.values(): consumer.close(), up to
\* self._running = False
StopAllClose ==
    /\ reg.pc = "close"
    /\ reg' = [reg EXCEPT !.c[reg.i].running = FALSE,
                          !.pc = IF reg.c[reg.i].client = "None"
                                 THEN IF reg.i = Len(Names) THEN "stopped"
                                      ELSE "close"
                                 ELSE "close client",
                          !.i = IF reg.c[reg.i].client # "None" THEN reg.i
                                ELSE IF reg.i = Len(Names) THEN 0
                                ELSE reg.i + 1]
    /\ UNCHANGED RegOthers

\* close(): self._client.close()
StopAllClientClose ==
    /\ reg.pc = "close client"
    /\ reg' = [reg EXCEPT !.c[reg.i].client = "closed", !.pc = "close none"]
    /\ UNCHANGED RegOthers

\* close(): self._client = None, and the next consumer
StopAllClientNone ==
    /\ reg.pc = "close none"
    /\ reg' = [reg EXCEPT !.c[reg.i].client = "None",
                          !.i = IF reg.i = Len(Names) THEN 0 ELSE reg.i + 1,
                          !.pc = IF reg.i = Len(Names) THEN "stopped" ELSE "close"]
    /\ UNCHANGED RegOthers

NextRegistry ==
    \/ RegRunStart
    \/ RegRunSet
    \/ RegLoopTest
    \/ RegRead
    \/ RegHandler
    \/ RegAck
    \/ HandleShutdown
    \/ StopAllCalled
    \/ StopAllSignal
    \/ StopAllGather
    \/ StopAllClose
    \/ StopAllClientClose
    \/ StopAllClientNone

SpecRegistry == InitRegistry /\ [][NextRegistry]_vars

\* A step of the run() of the consumer registered k-th
RunThread(k) ==
    /\ RegRunStart \/ RegRunSet \/ RegLoopTest \/ RegRead \/ RegHandler \/ RegAck
    /\ reg'.c[k] # reg.c[k]

\* The last record of a batch is done with: a batch has at most count
\* records
BatchEnds(k) ==
    /\ RunThread(k)
    /\ reg.c[k].pc \in {"handler", "ack"}
    /\ reg'.c[k].pc = "loop"

\* The executor thread of every run() and the event loop running stop_all
\* keep being scheduled, every read, handler call and acknowledgment
\* returns or raises, and no batch goes on for ever.
FairRegistry ==
    /\ SpecRegistry
    /\ \A k \in DOMAIN Names : WF_vars(RunThread(k)) /\ SF_vars(BatchEnds(k))
    /\ WF_vars(StopAllSignal \/ StopAllGather \/ StopAllClose
                  \/ StopAllClientClose \/ StopAllClientNone)

----------------------------------------------------------------------------
(* SpecRequests: two requests, each for one use case, arrive together at   *)
(* worker processes of the application, over a table that holds one        *)
(* pending task, and the endpoint answers.  A process is main.py running:  *)
(* its lifespan builds one TaskService with one SQLAlchemyUnitOfWork, and  *)
(* its event loop runs the endpoints, which are `async def` and await      *)
(* nothing, one to its end before the next begins.  Requests of two        *)
(* processes interleave; a step is what a request does between two         *)
(* accesses to what the processes share: the table and the stream.  The    *)
(* session __enter__ made for request r is named r, and req[r].ops are the *)
(* calls made on that session, each with the request that made it.  last   *)
(* is the latest repository call.                                          *)

AttributeError == "AttributeError"
HTTPException == "HTTPException"
IntegrityError == "IntegrityError"
StaleDataError == "StaleDataError"
InvalidRequestError == "InvalidRequestError"

\* The worker processes, each with the unit of work its lifespan built
Processes == {"P1", "P2"}

\* Request r goes on to pc
Goto(th, r, pc) == [th EXCEPT ![r].pc = pc]

\* Request r gets the error e
Fails(th, r, e) == [th EXCEPT ![r].err = e]

\* Request r calls op on the session s
OnSession(th, s, op, r) ==
    [th EXCEPT ![s].ops = Append(@, [op |-> op, by |-> r])]

RequestOthers ==
    <<entityVars, consumerVars, registryVars>>

\* The use cases the requests are for
RequestOps ==
    {"create_task", "start_task", "complete_task", "cancel_task",
     "assign_task", "delete_task"}

\* The use cases that change the status of the task
Transitions == {"start_task", "complete_task", "cancel_task"}

\* The use cases that load the task, call the entity and save it
Loading == Transitions \cup {"assign_task"}

\* The assignees the body of an assign_task request can name
RequestAssignees == {TxtPadB, TxtBlank, TxtEmpty}

\* schemas.py, TaskAssignRequest.validate_assignee (and min_length=1):
\* if not v or not v.strip(): raise ValueError, else return v.strip()
ValidateAssignee(v) ==
    IF ~Truthy(v) \/ ~Truthy(Strip(v)) THEN [ok |-> FALSE, v |-> v]
    ELSE [ok |-> TRUE, v |-> Strip(v)]

\* The assignee the endpoint hands to assign_task: request.assignee of the
\* validated body
ServiceAssignee(body) == ValidateAssignee(body).v

\* The task of the table, and the id every call but create_task is for
StoredTask == TaskCreate("t1", TxtA, TxtA, "low", None, 0)

\* The task request r creates at time now
RequestTask(r, now) ==
    TaskCreate(IF r = "R1" THEN "t2" ELSE "t3", TxtA, TxtA, "low", None, now)

\* The entity method of a use case
MethodOf(op) ==
    CASE op = "start_task" -> "start"
      [] op = "complete_task" -> "complete"
      [] op = "cancel_task" -> "cancel"
      [] op = "assign_task" -> "assign_to"

\* The argument of that call: assignee.strip() for assign_to
MethodArg(op, assignee) ==
    IF op = "assign_task" THEN [assignee |-> Strip(assignee)] ELSE NoArg

\* uuid4() of the event request r builds: an id of its own
RequestEventId(r) == IF r = "R1" THEN "2" ELSE "3"

\* The name a use case publishes its event under
PublishedAs(op) ==
    CASE op = "create_task" -> "task.created"
      [] op = "start_task" -> "task.started"
      [] op = "complete_task" -> "task.completed"
      [] op = "cancel_task" -> "task.cancelled"
      [] op = "assign_task" -> "task.assigned"

\* The event with the id uuid a use case builds for the task tk at time
\* now; assignee is the argument of assign_task
RequestEvent(uuid, op, tk, assignee, now) ==
    CASE op = "create_task" ->
            ToDict("TaskCreatedEvent", uuid, now,
                   [task_id |-> Str(tk.id), title |-> tk.title,
                    assigned_to |-> tk.assigned_to,
                    priority |-> Text(tk.priority)])
      [] op = "start_task" ->
            ToDict("TaskStartedEvent", uuid, now,
                   [task_id |-> Str(tk.id), started_by |-> None])
      [] op = "complete_task" ->
            ToDict("TaskCompletedEvent", uuid, now,
                   [task_id |-> Str(tk.id), completed_by |-> None])
      [] op = "cancel_task" ->
            ToDict("TaskCancelledEvent", uuid, now,
                   [task_id |-> Str(tk.id), cancelled_by |-> None,
                    reason |-> None])
      [] op = "assign_task" ->
            ToDict("TaskAssignedEvent", uuid, now,
                   [task_id |-> Str(tk.id), assigned_to |-> assignee,
                    assigned_by |-> None])

\* The exception classes an endpoint catches before `except Exception`,
\* each with the status it answers
Handlers(op) ==
    CASE op = "create_task" -> [e \in {BusinessRuleViolation} |-> 422]
      [] op \in Transitions ->
            [e \in {EntityNotFound, ValueError} |->
                IF e = EntityNotFound THEN 404 ELSE 422]
      [] op \in {"update_task", "assign_task"} ->
            [e \in {EntityNotFound, BusinessRuleViolation} |->
                IF e = EntityNotFound THEN 404 ELSE 422]
      [] op \in {"delete_task", "get_task"} -> [e \in {EntityNotFound} |-> 404]
      [] OTHER -> [e \in {} |-> 500]

\* What the try block of an endpoint raises: the service's exception, or
\* the HTTPException(404) the delete endpoint raises for deleted = False
TryBlock(op, err, deleted) ==
    IF err # NoError THEN err
    ELSE IF op = "delete_task" /\ ~deleted THEN HTTPException
    ELSE NoError

\* The status an endpoint answers with
HttpStatus(op, err, deleted) ==
    LET e == TryBlock(op, err, deleted)
    IN IF e = NoError
       THEN IF op = "create_task" THEN 201 ELSE 200
       ELSE IF e \in DOMAIN Handlers(op) THEN Handlers(op)[e]
       ELSE 500

\* The UPDATE that save's commit flushes at time now: its SET clause holds
\* the columns whose assigned value differs from the row save's SELECT
\* loaded, updated_at gets the time of the flush when it is not among
\* them, and the other columns of the row stay as they are in the table
Updated(row, existing, t, now) ==
    [c \in DOMAIN row |->
        IF c \in DOMAIN Assigned(t) /\ Assigned(t)[c] # Assigned(existing)[c]
        THEN Assigned(t)[c]
        ELSE IF c = "updated_at" THEN now
        ELSE row[c]]

\* session.commit() of save, for the row `existing` its SELECT loaded
\* (NoTask: none): the INSERT fails on a primary key that is taken, no
\* UPDATE is sent when no assigned value differs, and the UPDATE fails
\* when it matches no row
SaveCommitted(st, existing, t, now) ==
    IF existing = NoTask
    THEN IF t.id \in DOMAIN st
         THEN [err |-> IntegrityError, store |-> st]
         ELSE [err |-> NoError, store |-> RepoSave(st, t, now)]
    ELSE IF Assigned(t) = Assigned(existing)
    THEN [err |-> NoError, store |-> st]
    ELSE IF t.id \notin DOMAIN st
    THEN [err |-> StaleDataError, store |-> st]
    ELSE [err |-> NoError,
          store |-> [st EXCEPT ![t.id] = Updated(st[t.id], existing, t, now)]]

\* A request that calls nothing
IdleRequest ==
    [pc |-> "none", err |-> NoError, ops |-> <<>>, op |-> "none",
     proc |-> "none", assignee |-> None, task |-> NoTask, existing |-> NoTask,
     event |-> NoTask, deleted |-> FALSE, http |-> 0]

\* A repository call of a request, as last records it
RequestLast(op, id) ==
    [NoCall EXCEPT !.op = op, !.id = id, !.pre = store]

\* The endpoint of request r has begun and has not answered
Running(r) == req[r].pc \notin {"call", "rejected", "responded"}

\* The event loop of r's process is free to begin r's endpoint: no other
\* endpoint of the process has begun and not yet answered
EventLoop(r) ==
    \A o \in Requests \ {r} : req[o].proc = req[r].proc => ~Running(o)

\* The requests before their endpoints begin: request r is for the use
\* case ops[r] and arrives at the process procs[r], and the body of an
\* assign_task request names the assignee bodies[r]
RequestsArrive(ops, procs, bodies) ==
    /\ clock = 0
    /\ EntityIdle
    /\ store = RepoSave(EmptyStore, StoredTask, 0)
    /\ uow = [p \in Processes |-> [session |-> NoSession]]
    /\ stream = XAdd(<<>>, Text(PublishedAs("create_task")),
                     RequestEvent("1", "create_task", StoredTask, None, 0))
    /\ last = NoCall
    /\ ConsumerIdle
    /\ RegistryIdle
    /\ req = [r \in Requests |->
                 [IdleRequest EXCEPT
                     !.pc = "call", !.op = ops[r], !.proc = procs[r],
                     !.assignee = IF ops[r] = "assign_task" THEN bodies[r]
                                  ELSE None]]

InitRequests ==
    \E ops \in [Requests -> RequestOps], procs \in [Requests -> Processes],
       bodies \in [Requests -> RequestAssignees] :
        RequestsArrive(ops, procs, bodies)

\* The body of an assign_task request is validated before the endpoint is
\* called, and a body TaskAssignRequest rejects is answered with 422.
\* Then the use case of request r runs up to __enter__'s test:
\* assign_task first rejects a blank assignee, then
\* if self._session is not None: raise
EnterTestOf(r) ==
    /\ req[r].pc = "call"
    /\ req' = IF req[r].op = "assign_task" /\ ~ValidateAssignee(req[r].assignee).ok
              THEN [Goto(req, r, "rejected") EXCEPT ![r].http = 422]
              ELSE IF req[r].op = "assign_task"
                      /\ Blank(ServiceAssignee(req[r].assignee))
              THEN Fails(Goto(req, r, "done"), r, BusinessRuleViolation)
              ELSE IF uow[req[r].proc].session # NoSession
              THEN Fails(Goto(req, r, "done"), r, RuntimeError)
              ELSE Goto(req, r, "enter")
    /\ UNCHANGED <<clock, store, uow, stream, last, RequestOthers>>

\* The event loop begins the endpoint of a request
EnterTest ==
    \E r \in Requests : EventLoop(r) /\ EnterTestOf(r)

\* self._session = self.db_session._session_factory()
EnterAssign ==
    \E r \in Requests :
        /\ req[r].pc = "enter"
        /\ uow' = [uow EXCEPT ![req[r].proc] = [session |-> r]]
        /\ req' = Goto(req, r, "body")
        /\ UNCHANGED <<clock, store, stream, last, RequestOthers>>

\* task = self.get_task(task_id) of start_task, complete_task, cancel_task
\* and assign_task
Load ==
    \E r \in Requests :
        /\ req[r].pc = "body"
        /\ req[r].op \in Loading
        /\ req' = IF RepoGetById(store, StoredTask.id) = NoTask
                  THEN Fails(Goto(req, r, "exit"), r, EntityNotFound)
                  ELSE [Goto(req, r, "mutate") EXCEPT
                           ![r].task = RepoGetById(store, StoredTask.id)]
        /\ last' = RequestLast("repo.get_by_id", StoredTask.id)
        /\ UNCHANGED <<clock, store, uow, stream, RequestOthers>>

\* Task.create, or the entity method on the loaded task, at the time the
\* clock shows
EntityStep ==
    \E r \in Requests :
        LET now == clock + 1
            e == IF req[r].op = "create_task" THEN Returned(RequestTask(r, now))
                 ELSE EntityCall(req[r].task, MethodOf(req[r].op),
                                 MethodArg(req[r].op,
                                           ServiceAssignee(req[r].assignee)),
                                 now)
        IN /\ \/ req[r].pc = "body" /\ req[r].op = "create_task"
              \/ req[r].pc = "mutate"
           /\ IF e.ok
              THEN /\ clock' = now
                   /\ req' = [Goto(req, r, "save") EXCEPT ![r].task = e.task]
              ELSE /\ req' = Fails(Goto(req, r, "exit"), r, e.err)
                   /\ clock' = clock
           /\ UNCHANGED <<store, uow, stream, last, RequestOthers>>

\* save: existing = session.query(TaskModel).filter(...).first()
SaveSelect ==
    \E r \in Requests :
        /\ req[r].pc = "save"
        /\ req' = [Goto(req, r, "save commit") EXCEPT
                      ![r].existing = RepoGetById(store, req[r].task.id)]
        /\ UNCHANGED <<clock, store, uow, stream, last, RequestOthers>>

\* save: the assignments to existing, or session.add(model), and
\* session.commit()
SaveCommit ==
    \E r \in Requests :
        /\ req[r].pc = "save commit"
        /\ LET w == SaveCommitted(store, req[r].existing, req[r].task, clock)
           IN /\ store' = w.store
              /\ req' = IF w.err = NoError THEN Goto(req, r, "save refresh")
                        ELSE Fails(Goto(req, r, "exit"), r, w.err)
        /\ last' = RequestLast("repo.save", req[r].task.id)
        /\ UNCHANGED <<clock, uow, stream, RequestOthers>>

\* save: session.refresh(...) reads the row again, and fails when it is
\* gone; return self._to_domain(...)
SaveRefresh ==
    \E r \in Requests :
        /\ req[r].pc = "save refresh"
        /\ req' = IF RepoGetById(store, req[r].task.id) = NoTask
                  THEN Fails(Goto(req, r, "exit"), r, InvalidRequestError)
                  ELSE [Goto(req, r, "event") EXCEPT
                           ![r].task = RepoGetById(store, req[r].task.id)]
        /\ UNCHANGED <<clock, store, uow, stream, last, RequestOthers>>

\* event = Task...Event(event_id=uuid4(), occurred_at=datetime.utcnow(),
\* ...) and event.to_dict(), the argument of publish
BuildEvent ==
    \E r \in Requests :
        /\ req[r].pc = "event"
        /\ req' = [Goto(req, r, "publish") EXCEPT
                      ![r].event = RequestEvent(RequestEventId(r), req[r].op,
                                                req[r].task,
                                                ServiceAssignee(req[r].assignee),
                                                clock)]
        /\ UNCHANGED <<clock, store, uow, stream, last, RequestOthers>>

\* self.event_publisher.publish(name, ...): the XADD of the event built
Publish ==
    \E r \in Requests :
        /\ req[r].pc = "publish"
        /\ stream' = XAdd(stream, Text(PublishedAs(req[r].op)), req[r].event)
        /\ req' = Goto(req, r, "commit")
        /\ UNCHANGED <<clock, store, uow, last, RequestOthers>>

\* if not self.task_repository.exists(task_id): raise EntityNotFoundException
Exists ==
    \E r \in Requests :
        /\ req[r].pc = "body"
        /\ req[r].op = "delete_task"
        /\ req' = IF RepoExists(store, StoredTask.id)
                  THEN Goto(req, r, "delete")
                  ELSE Fails(Goto(req, r, "exit"), r, EntityNotFound)
        /\ last' = RequestLast("repo.exists", StoredTask.id)
        /\ UNCHANGED <<clock, store, uow, stream, RequestOthers>>

\* delete: model = session.query(TaskModel).filter(...).first(), and
\* return False when there is none
DeleteSelect ==
    \E r \in Requests :
        /\ req[r].pc = "delete"
        /\ req' = IF RepoGetById(store, StoredTask.id) = NoTask
                  THEN [Goto(req, r, "commit") EXCEPT ![r].deleted = FALSE]
                  ELSE [Goto(req, r, "delete commit") EXCEPT
                           ![r].existing = RepoGetById(store, StoredTask.id)]
        /\ last' = RequestLast("repo.delete", StoredTask.id)
        /\ UNCHANGED <<clock, store, uow, stream, RequestOthers>>

\* delete: session.delete(model); session.commit(); return True, also when
\* the DELETE matched no row
DeleteCommit ==
    \E r \in Requests :
        /\ req[r].pc = "delete commit"
        /\ store' = RepoDelete(store, StoredTask.id)
        /\ last' = RequestLast("repo.delete", StoredTask.id)
        /\ req' = [Goto(req, r, "commit") EXCEPT ![r].deleted = TRUE]
        /\ UNCHANGED <<clock, uow, stream, RequestOthers>>

\* self.unit_of_work.commit(): RuntimeError without a session, else
\* Session.commit() on the session the unit of work holds now
ServiceCommit ==
    \E r \in Requests :
        LET session == uow[req[r].proc].session
        IN /\ req[r].pc = "commit"
           /\ req' = IF session = NoSession
                     THEN Fails(Goto(req, r, "exit"), r, RuntimeError)
                     ELSE OnSession(Goto(req, r, "exit"), session, "commit", r)
           /\ UNCHANGED <<clock, store, uow, stream, last, RequestOthers>>

\* __exit__ up to its finally clause: nothing without a session, else
\* commit() if the block raised nothing and rollback() if it raised
ExitEnd ==
    \E r \in Requests :
        LET session == uow[req[r].proc].session
        IN /\ req[r].pc = "exit"
           /\ req' = IF session = NoSession THEN Goto(req, r, "done")
                     ELSE OnSession(Goto(req, r, "close"), session,
                                    IF req[r].err = NoError THEN "commit"
                                    ELSE "rollback", r)
           /\ UNCHANGED <<clock, store, uow, stream, last, RequestOthers>>

\* finally: self._session.close(); self._session = None
ExitClose ==
    \E r \in Requests :
        LET session == uow[req[r].proc].session
        IN /\ req[r].pc = "close"
           /\ IF session = NoSession
              THEN /\ req' = Fails(Goto(req, r, "done"), r, AttributeError)
                   /\ uow' = uow
              ELSE /\ req' = OnSession(Goto(req, r, "done"), session, "close", r)
                   /\ uow' = [uow EXCEPT ![req[r].proc] = [session |-> NoSession]]
           /\ UNCHANGED <<clock, store, stream, last, RequestOthers>>

\* The endpoint's except clauses and its answer
Respond ==
    \E r \in Requests :
        /\ req[r].pc = "done"
        /\ req' = [Goto(req, r, "responded") EXCEPT
                      ![r].http = HttpStatus(req[r].op, req[r].err,
                                             req[r].deleted)]
        /\ UNCHANGED <<clock, store, uow, stream, last, RequestOthers>>

NextRequests ==
    \/ EnterTest
    \/ EnterAssign
    \/ Load
    \/ EntityStep
    \/ SaveSelect
    \/ SaveCommit
    \/ SaveRefresh
    \/ BuildEvent
    \/ Publish
    \/ Exists
    \/ DeleteSelect
    \/ DeleteCommit
    \/ ServiceCommit
    \/ ExitEnd
    \/ ExitClose
    \/ Respond

SpecRequests == InitRequests /\ [][NextRequests]_vars

----------------------------------------------------------------------------
(* SpecThreads: the one TaskService of a process, with its one             *)
(* SQLAlchemyUnitOfWork, called by two threads at the same time, each for  *)
(* one use case.  A thread begins its call whatever the other is doing,    *)
(* and the threads are switched between any two reads or writes of         *)
(* self._session: the steps on the unit of work are its single lines, the  *)
(* other steps of a call are those of SpecRequests.                        *)

InitThreads ==
    \E ops \in [Requests -> RequestOps],
       bodies \in [Requests -> RequestAssignees] :
        RequestsArrive(ops, [r \in Requests |-> "P1"], bodies)

\* A thread calls the use case
ThreadEnterTest ==
    \E r \in Requests : EnterTestOf(r)

\* Where commit() returns or raises to: the with block's end when the use
\* case called it, the finally clause when __exit__ did
CommitEnds(pc) ==
    IF pc \in {"commit", "commit call", "commit failed"} THEN "exit"
    ELSE "close"

\* commit(): if self._session is None: raise RuntimeError
ThreadCommitTest ==
    \E r \in Requests :
        /\ req[r].pc \in {"commit", "exit commit"}
        /\ req' = IF uow[req[r].proc].session = NoSession
                  THEN Fails(Goto(req, r, CommitEnds(req[r].pc)), r, RuntimeError)
                  ELSE Goto(req, r, IF req[r].pc = "commit" THEN "commit call"
                                    ELSE "exit commit call")
        /\ UNCHANGED <<clock, store, uow, stream, last, RequestOthers>>

\* commit(): self._session.commit(), on the session the unit of work holds
\* now; on None the AttributeError is caught by the except clause
ThreadCommitCall ==
    \E r \in Requests :
        LET session == uow[req[r].proc].session
        IN /\ req[r].pc \in {"commit call", "exit commit call"}
           /\ req' = IF session = NoSession
                     THEN Goto(req, r, IF req[r].pc = "commit call"
                                       THEN "commit failed"
                                       ELSE "exit commit failed")
                     ELSE OnSession(Goto(req, r, CommitEnds(req[r].pc)),
                                    session, "commit", r)
           /\ UNCHANGED <<clock, store, uow, stream, last, RequestOthers>>

\* commit(), except Exception: self._session.rollback(), which raises
\* AttributeError on None, and else raise of the AttributeError caught
ThreadCommitFailed ==
    \E r \in Requests :
        LET session == uow[req[r].proc].session
            raised == Fails(Goto(req, r, CommitEnds(req[r].pc)), r, AttributeError)
        IN /\ req[r].pc \in {"commit failed", "exit commit failed"}
           /\ req' = IF session = NoSession THEN raised
                     ELSE OnSession(raised, session, "rollback", r)
           /\ UNCHANGED <<clock, store, uow, stream, last, RequestOthers>>

\* __exit__: if self._session is None: return; then self.commit() if the
\* block raised nothing and self.rollback() if it raised
ThreadExitTest ==
    \E r \in Requests :
        /\ req[r].pc = "exit"
        /\ req' = Goto(req, r, IF uow[req[r].proc].session = NoSession THEN "done"
                               ELSE IF req[r].err = NoError THEN "exit commit"
                               ELSE "exit rollback")
        /\ UNCHANGED <<clock, store, uow, stream, last, RequestOthers>>

\* rollback(): if self._session is None: raise RuntimeError
ThreadRollbackTest ==
    \E r \in Requests :
        /\ req[r].pc = "exit rollback"
        /\ req' = IF uow[req[r].proc].session = NoSession
                  THEN Fails(Goto(req, r, "close"), r, RuntimeError)
                  ELSE Goto(req, r, "exit rollback call")
        /\ UNCHANGED <<clock, store, uow, stream, last, RequestOthers>>

\* rollback(): self._session.rollback()
ThreadRollbackCall ==
    \E r \in Requests :
        LET session == uow[req[r].proc].session
        IN /\ req[r].pc = "exit rollback call"
           /\ req' = IF session = NoSession
                     THEN Fails(Goto(req, r, "close"), r, AttributeError)
                     ELSE OnSession(Goto(req, r, "close"), session, "rollback", r)
           /\ UNCHANGED <<clock, store, uow, stream, last, RequestOthers>>

\* finally: self._session.close(), which on None raises AttributeError
\* and leaves the clause
ThreadExitClose ==
    \E r \in Requests :
        LET session == uow[req[r].proc].session
        IN /\ req[r].pc = "close"
           /\ req' = IF session = NoSession
                     THEN Fails(Goto(req, r, "done"), r, AttributeError)
                     ELSE OnSession(Goto(req, r, "close none"), session, "close", r)
           /\ UNCHANGED <<clock, store, uow, stream, last, RequestOthers>>

\* finally: self._session = None, whichever session the field holds
ThreadExitNone ==
    \E r \in Requests :
        /\ req[r].pc = "close none"
        /\ uow' = [uow EXCEPT ![req[r].proc] = [session |-> NoSession]]
        /\ req' = Goto(req, r, "done")
        /\ UNCHANGED <<clock, store, stream, last, RequestOthers>>

NextThreads ==
    \/ ThreadEnterTest
    \/ EnterAssign
    \/ Load
    \/ EntityStep
    \/ SaveSelect
    \/ SaveCommit
    \/ SaveRefresh
    \/ BuildEvent
    \/ Publish
    \/ Exists
    \/ DeleteSelect
    \/ DeleteCommit
    \/ ThreadCommitTest
    \/ ThreadCommitCall
    \/ ThreadCommitFailed
    \/ ThreadExitTest
    \/ ThreadRollbackTest
    \/ ThreadRollbackCall
    \/ ThreadExitClose
    \/ ThreadExitNone
    \/ Respond

SpecThreads == InitThreads /\ [][NextThreads]_vars

----------------------------------------------------------------------------
(* SpecNotify: the requests of SpecRequests, at one process, publish to the *)
(* stream "events" while the run() of the TaskNotificationConsumer reads    *)
(* it, in the executor thread of that process or in worker.py's.  The       *)
(* consumer takes its steps between any two steps of a use case.  The       *)
(* record the stream holds at the start is the one create_task published    *)
(* for the stored task.  The send_message calls are entries of the log,     *)
(* before the outcome of the handler invocation making them.                *)

InitNotify ==
    /\ clock = 0
    /\ EntityIdle
    /\ store = RepoSave(EmptyStore, StoredTask, 0)
    /\ uow = [p \in Processes |-> [session |-> NoSession]]
    /\ stream = XAdd(<<>>, Text(PublishedAs("create_task")),
                     RequestEvent("1", "create_task", StoredTask, None, 0))
    /\ last = NoCall
    /\ group = [last_delivered |-> 0, pending |-> {}]
    /\ cons = [running |-> FALSE, pc |-> "start", batch |-> <<>>]
    /\ script = <<>>
    /\ log = <<>>
    /\ RegistryIdle
    /\ \E ops \in [Requests -> RequestOps] :
          req = [r \in Requests |->
                    [IdleRequest EXCEPT
                        !.pc = "call", !.op = ops[r], !.proc = "P1",
                        !.assignee = IF ops[r] = "assign_task" THEN TxtPadB
                                     ELSE None]]

\* _parse_message and process_message for the next record of the batch:
\* for an event type without a formatter process_message returns; the
\* send_message of a formatter returns, or raises (session.post raises or
\* Telegram answers ok = False) and process_message re-raises.  The call
\* to Telegram reads and writes nothing the use cases share.
NotifyProcess ==
    /\ cons.pc = "process"
    /\ \E raises \in BOOLEAN :
          LET id == Head(cons.batch)
              h == NotifyProcessMessage(id, stream[id])
              outcome == IF h.raised \/ (h.sends # <<>> /\ raises)
                         THEN "raised" ELSE "ok"
          IN /\ log' = (log \o h.sends) \o <<[ev |-> outcome, id |-> id]>>
             /\ cons' = IF AfterProcess(outcome) = "ack"
                        THEN [cons EXCEPT !.pc = "ack"]
                        ELSE NextRecord(cons)
    /\ UNCHANGED <<stream, group, script, Others>>

NextNotify ==
    \/ NextRequests
    \/ RunStart
    \/ LoopTest
    \/ ReadReturns
    \/ NotifyProcess
    \/ AckReturns

SpecNotify == InitNotify /\ [][NextNotify]_vars

----------------------------------------------------------------------------
(* SpecRepo: any sequence of save and delete calls on the repository, each *)
(* in its own session.  clock is the time of the database's flush.         *)

\* The tasks handed to save: values of the entity, created at created_at
\* and last changed at updated_at
RepoTasks(now) ==
    {[id |-> id, title |-> title, description |-> TxtA, status |-> status,
      priority |-> "low", assigned_to |-> None, created_at |-> created_at,
      updated_at |-> updated_at,
      completed_at |-> IF status = COMPLETED THEN updated_at ELSE NoTime] :
        id \in TaskIds, title \in {TxtA, TxtB}, status \in {PENDING, COMPLETED},
        created_at \in {0, 1}, updated_at \in 1..now}

InitRepo ==
    /\ clock = 0
    /\ EntityIdle
    /\ ServiceIdle
    /\ ConsumerIdle
    /\ RegistryIdle
    /\ RequestsIdle

\* One call of the repository, seen in last
RepoCall(op, id, args, st, ret) ==
    /\ clock < MaxClock
    /\ clock' = clock + 1
    /\ store' = st
    /\ last' = [op |-> op, id |-> id, args |-> args, err |-> NoError,
                calls |-> <<op>>, ret |-> ret, entered |-> FALSE,
                pre |-> store, preLen |-> Len(stream)]
    /\ UNCHANGED <<uow, stream, entityVars, consumerVars, registryVars,
                   requestVars>>

\* repository.save(task)
Save ==
    \E t \in RepoTasks(clock + 1) :
        RepoCall("repo.save", t.id, [task |-> t],
                 RepoSave(store, t, clock + 1), SavedRow(store, t, clock + 1))

\* repository.delete(task_id)
Delete ==
    \E id \in TaskIds :
        RepoCall("repo.delete", id, NoArg, RepoDelete(store, id),
                 [deleted |-> RepoExists(store, id)])

NextRepo ==
    \/ Save
    \/ Delete

SpecRepo == InitRepo /\ [][NextRepo]_vars

----------------------------------------------------------------------------
(* SpecStats: get_task_statistics, with and without an assignee, over a    *)
(* table that does not change: a table of up to MaxFew tasks of any        *)
(* status, priority and assignee, or one of about StatsLimit tasks, up to  *)
(* MaxOver more than the limit of the fetch.  A task is what Task.create   *)
(* and one call of start, complete or cancel made of it.                   *)

\* The task i created at time t, with the status s since the time after
StatsTask(i, s, priority, assigned_to, t) ==
    LET created == TaskCreate(i, TxtA, TxtA, priority, assigned_to, t)
    IN CASE s = PENDING -> created
         [] s = IN_PROGRESS -> TaskStart(created, t + 1).task
         [] s = COMPLETED -> TaskComplete(created, t + 1).task
         [] s = CANCELLED -> TaskCancel(created, t + 1).task

\* The tables of at most MaxFew tasks, task i created at time i
FewTasks ==
    {[i \in DOMAIN few |->
         StatsTask(i, few[i].status, few[i].priority, few[i].assigned_to, i)] :
        few \in UNION {[1..n -> [status : TaskStatus, priority : Priorities,
                                 assigned_to : {None, TxtA}]] : n \in 0..MaxFew}}

\* The statuses in the order the tasks of a large table take them
StatusCycle == <<PENDING, IN_PROGRESS, COMPLETED, CANCELLED>>

\* The table of n tasks, task 1 the oldest: every third task has the
\* priority `third` and the others the priority `other`, all are assigned
\* to the same person but the second, and with tie the three oldest tasks
\* are created at the same time
ManyTasks(n, third, other, tie) ==
    [i \in 1..n |->
        StatsTask(i, StatusCycle[(i % 4) + 1],
                  IF i % 3 = 1 THEN third ELSE other,
                  IF i = 2 THEN TxtB ELSE TxtA,
                  IF tie /\ i <= 3 THEN 1 ELSE i)]

InitStats ==
    /\ clock = 0
    /\ EntityIdle
    /\ uow = [session |-> NoSession]
    /\ stream = <<>>
    /\ last = NoCall
    /\ ConsumerIdle
    /\ RegistryIdle
    /\ RequestsIdle
    /\ \/ store \in FewTasks
       \/ \E over \in -1..MaxOver, third \in Priorities, tie \in BOOLEAN :
             \E other \in Priorities \ {third} :
                store = ManyTasks(StatsLimit + over, third, other, tie)

\* task_service.get_task_statistics(assigned_to)
Statistics ==
    \E assigned_to \in {None, TxtA} :
        \E c \in get_task_statistics(Ctx, assigned_to) :
           /\ last' = [NoCall EXCEPT !.op = "get_task_statistics",
                                     !.args = [assigned_to |-> assigned_to],
                                     !.calls = c.calls, !.ret = c.ret]
           /\ UNCHANGED <<clock, store, uow, stream, entityVars, consumerVars,
                          registryVars, requestVars>>

NextStats ==
    \/ Statistics

SpecStats == InitStats /\ [][NextStats]_vars

----------------------------------------------------------------------------
(* SpecEvents: one event of any variant is serialized with to_dict,        *)
(* published, and the record is decoded by the consumer's _parse_message.  *)

EventClasses ==
    {"TaskCreatedEvent", "TaskStartedEvent", "TaskCompletedEvent",
     "TaskCancelledEvent", "TaskAssignedEvent"}

\* The optional texts of an event: None, a text, a text with blanks, a
\* text with a brace, a quote and a backslash
OptionalTexts == {None, TxtA, TxtPadB, TxtJson}

\* The event objects of each variant
Events ==
    LET Base == [event_id : {"1", "2"}, occurred_at : 0..1, task_id : TaskIds]
        With(class, b, rest) ==
            [f \in {"class"} \cup DOMAIN b \cup DOMAIN rest |->
                IF f = "class" THEN class
                ELSE IF f \in DOMAIN b THEN b[f] ELSE rest[f]]
    IN {With("TaskCreatedEvent", b, r) :
           b \in Base,
           r \in [title : {TxtA, TxtJson}, assigned_to : OptionalTexts,
                  priority : {Text(p) : p \in Priorities}]}
       \cup {With("TaskStartedEvent", b, r) :
               b \in Base, r \in [started_by : OptionalTexts]}
       \cup {With("TaskCompletedEvent", b, r) :
               b \in Base, r \in [completed_by : OptionalTexts]}
       \cup {With("TaskCancelledEvent", b, r) :
               b \in Base,
               r \in [cancelled_by : OptionalTexts, reason : OptionalTexts]}
       \cup {With("TaskAssignedEvent", b, r) :
               b \in Base,
               r \in [assigned_to : {TxtA, TxtPadB, TxtJson},
                      assigned_by : OptionalTexts]}

\* _get_event_data of each variant
GetEventData(e) ==
    CASE e.class = "TaskCreatedEvent" ->
            [task_id |-> Str(e.task_id), title |-> e.title,
             assigned_to |-> e.assigned_to, priority |-> e.priority]
      [] e.class = "TaskStartedEvent" ->
            [task_id |-> Str(e.task_id), started_by |-> e.started_by]
      [] e.class = "TaskCompletedEvent" ->
            [task_id |-> Str(e.task_id), completed_by |-> e.completed_by]
      [] e.class = "TaskCancelledEvent" ->
            [task_id |-> Str(e.task_id), cancelled_by |-> e.cancelled_by,
             reason |-> e.reason]
      [] e.class = "TaskAssignedEvent" ->
            [task_id |-> Str(e.task_id), assigned_to |-> e.assigned_to,
             assigned_by |-> e.assigned_by]

\* event.to_dict()
EventToDict(e) == ToDict(e.class, e.event_id, e.occurred_at, GetEventData(e))

InitEvents ==
    /\ clock = 0
    /\ EntityIdle
    /\ store = EmptyStore
    /\ uow = [session |-> NoSession]
    /\ stream = <<>>
    /\ \E e \in Events :
          last = [NoCall EXCEPT !.op = "event", !.args = [event |-> e]]
    /\ ConsumerIdle
    /\ RegistryIdle
    /\ RequestsIdle

\* self.event_publisher.publish(name, event.to_dict())
PublishEvent ==
    /\ last.op = "event"
    /\ stream' = XAdd(stream, Text(EventName(last.args.event.class)),
                      EventToDict(last.args.event))
    /\ last' = [last EXCEPT !.op = "publisher.publish"]
    /\ UNCHANGED <<clock, store, uow, entityVars, consumerVars, registryVars,
                   requestVars>>

\* self._parse_message(message_data) on the record read from the stream
ParseEvent ==
    /\ last.op = "publisher.publish"
    /\ last' = [last EXCEPT !.op = "_parse_message",
                            !.ret = ParseMessage(stream[Len(stream)])]
    /\ UNCHANGED <<clock, store, uow, stream, entityVars, consumerVars,
                   registryVars, requestVars>>

NextEvents ==
    \/ PublishEvent
    \/ ParseEvent

SpecEvents == InitEvents /\ [][NextEvents]_vars

----------------------------------------------------------------------------
(* SpecTask: one entity made by Task.create, then any sequence of calls.   *)

EntityTexts == {None, TxtEmpty, TxtB}
EntityAssignees == {TxtA, TxtPadB}

InitTask ==
    /\ clock = 0
    /\ \E title \in {TxtA}, description \in {TxtA, TxtPadB},
          priority \in TaskPriority, assigned_to \in {None, TxtA} :
          task = TaskCreate("t1", title, description, priority, assigned_to, 0)
    /\ res = [op |-> "create", ok |-> TRUE, err |-> NoError,
              before |-> task, now |-> 0]
    /\ ServiceIdle
    /\ ConsumerIdle
    /\ RegistryIdle
    /\ RequestsIdle

\* One call on the entity at time clock + 1: the entity is left as the method
\* leaves it, whether it returned or raised.
Call(op, r) ==
    /\ clock < MaxClock
    /\ clock' = clock + 1
    /\ task' = r.task
    /\ res' = [op |-> op, ok |-> r.ok, err |-> r.err,
               before |-> task, now |-> clock + 1]
    /\ UNCHANGED <<serviceVars, consumerVars, registryVars, requestVars>>

Start == Call("start", TaskStart(task, clock + 1))

Complete == Call("complete", TaskComplete(task, clock + 1))

Cancel == Call("cancel", TaskCancel(task, clock + 1))

AssignTo ==
    \E assignee \in EntityAssignees :
        Call("assign_to", TaskAssignTo(task, assignee, clock + 1))

UpdateDetails ==
    \E title \in EntityTexts, description \in EntityTexts :
        Call("update_details",
             TaskUpdateDetails(task, title, description, clock + 1))

NextTask == Start \/ Complete \/ Cancel \/ AssignTo \/ UpdateDetails

SpecTask == InitTask /\ [][NextTask]_vars

----------------------------------------------------------------------------
(* Properties *)

PublishingOps ==
    {"create_task", "start_task", "complete_task", "cancel_task", "assign_task"}

CountCalls(calls, x) == Cardinality({k \in DOMAIN calls : calls[k] = x})

\* C1: when event_publisher.publish fails in a publishing use case, the
\* task change of that use case is not durably visible: the table read by
\* any later session is what it was before the call.
C1_PublishFailureNotVisible ==
    (last.op \in PublishingOps /\ last.err = PublishError) => store = last.pre

\* C2: a record whose handler raised on its first invocation and would
\* return on the second is delivered again and acknowledged exactly once,
\* as long as the consumer keeps running.
C2_RedeliveredAndAcked ==
    \A m \in 1..MaxMsgs :
        (/\ m \in DOMAIN script
         /\ script[m] = 1
         /\ Invocations(log, m) = 1)
        ~> (Acks(log, m) = 1 \/ ~cons.running)

\* C3: the loop acknowledges a record only right after process_message
\* returned for it; a record whose handler raised in a delivery is not
\* acknowledged in that delivery and stays pending.
C3_AckOnlyAfterSuccess ==
    /\ \A k \in DOMAIN log :
          log[k].ev \in {"ack", "ack raised"} =>
              k > 1 /\ log[k - 1] = [ev |-> "ok", id |-> log[k].id]
    /\ cons.pc = "ack" =>
          log # <<>> /\ log[Len(log)] = [ev |-> "ok", id |-> Head(cons.batch)]
    /\ \A m \in DOMAIN script :
          Acks(log, m) > 0 =>
              \E k \in DOMAIN log : log[k] = [ev |-> "ok", id |-> m]
    /\ \A k \in DOMAIN log :
          log[k].ev = "raised" =>
              /\ log[k].id \in group.pending
              /\ k < Len(log) => log[k + 1].id # log[k].id

C3_Witness ==
    /\ \E k \in DOMAIN log : log[k].ev = "ack"
    /\ \E k \in DOMAIN log : log[k].ev = "raised"

\* C4: Task.start succeeds iff the status is Pending, moving the task to
\* InProgress and refreshing updated_at; from any other status it fails
\* with the invalid-operation error (the ValueError the API reports as
\* "InvalidOperation") and leaves the task as it was.
C4_StartIffPending ==
    res.op = "start" =>
        /\ res.ok <=> res.before.status = PENDING
        /\ res.ok => task = [res.before EXCEPT !.status = IN_PROGRESS,
                                               !.updated_at = res.now]
        /\ ~res.ok => res.err = ValueError /\ task = res.before

C4_Witness ==
    res.op = "start" /\ ~res.ok /\ res.before.status = IN_PROGRESS

\* C5: Task.complete succeeds iff the status is Pending or InProgress; then
\* the status is Completed and completed_at is set and equals updated_at;
\* on a Completed or Cancelled task it fails with the invalid-operation
\* error.
C5_CompleteIffOpen ==
    res.op = "complete" =>
        /\ res.ok <=> res.before.status \in {PENDING, IN_PROGRESS}
        /\ res.ok => /\ task.status = COMPLETED
                     /\ task.completed_at # NoTime
                     /\ task.completed_at = task.updated_at
                     /\ task = [res.before EXCEPT
                                   !.status = COMPLETED,
                                   !.completed_at = task.completed_at,
                                   !.updated_at = task.updated_at]
        /\ ~res.ok => res.err = ValueError /\ task = res.before

C5_Witness ==
    res.op = "complete" /\ ~res.ok /\ res.before.status = COMPLETED

\* C6: Task.cancel fails with the invalid-operation error iff the status is
\* Completed; from Pending, InProgress and Cancelled it succeeds and the
\* status is Cancelled.
C6_CancelFailsIffCompleted ==
    res.op = "cancel" =>
        /\ ~res.ok <=> res.before.status = COMPLETED
        /\ ~res.ok => res.err = ValueError /\ task = res.before
        /\ res.ok => task.status = CANCELLED

C6_Witness ==
    res.op = "cancel" /\ res.ok /\ res.before.status = CANCELLED

LegalTransitions ==
    {<<PENDING, IN_PROGRESS>>, <<PENDING, COMPLETED>>, <<PENDING, CANCELLED>>,
     <<IN_PROGRESS, COMPLETED>>, <<IN_PROGRESS, CANCELLED>>}

\* C7: Completed and Cancelled are terminal: once the status of a task made
\* by Task.create is one of them no call changes it, and the only status
\* changes are Pending->InProgress, Pending->Completed, Pending->Cancelled,
\* InProgress->Completed and InProgress->Cancelled.
C7_Terminal ==
    [][/\ task.status \in {COMPLETED, CANCELLED} => task'.status = task.status
       /\ task'.status # task.status =>
              <<task.status, task'.status>> \in LegalTransitions]_vars

C7_Witness ==
    /\ res.op \in {"start", "complete", "cancel"}
    /\ res.before.status = CANCELLED
    /\ task.status = CANCELLED

\* C8: completed_at is non-null iff the status is Completed; it is written
\* once, by the transition into Completed, and no later call clears or
\* overwrites it.
C8_CompletedAt ==
    /\ [](task.completed_at # NoTime <=> task.status = COMPLETED)
    /\ [][/\ task.completed_at # NoTime =>
                 task'.completed_at = task.completed_at
          /\ task'.completed_at # task.completed_at =>
                 /\ res'.op = "complete" /\ res'.ok
                 /\ task.status # COMPLETED /\ task'.status = COMPLETED]_vars

C8_Witness ==
    /\ res.op \in {"assign_to", "update_details", "cancel", "complete"}
    /\ res.before.status = COMPLETED
    /\ task.completed_at # NoTime
    /\ task.completed_at < res.now

\* The collaborator call a use case made last, before the unit of work's
\* own session calls
LastCall(calls) ==
    LET own == SelectSeq(calls, LAMBDA x : x \in {"repo.get_by_id", "repo.exists",
                   "repo.save", "repo.delete", "publisher.publish"})
    IN IF own = <<>> THEN "none" ELSE own[Len(own)]

\* The errors the step that failed can have raised
RaisedBy(calls) ==
    IF CountCalls(calls, "session.commit raised") > 0 THEN {CommitError}
    ELSE CASE LastCall(calls) = "repo.get_by_id" ->
                 {EntityNotFound, ValueError, BusinessRuleViolation}
           [] LastCall(calls) = "repo.exists" -> {EntityNotFound}
           [] LastCall(calls) \in {"repo.save", "repo.delete"} -> {RepositoryError}
           [] LastCall(calls) = "publisher.publish" -> {PublishError}
           [] OTHER -> {}

\* C9: a use case that fails after the unit of work was entered leaves the
\* unit of work rolled back and not committed, the caller gets the error of
\* the step that failed, and no step was tried twice.
C9_FailureRollsBack ==
    (last.entered /\ last.err # NoError) =>
        /\ CountCalls(last.calls, "session.rollback") >= 1
        /\ CountCalls(last.calls, "session.commit") = 0
        /\ last.err \in RaisedBy(last.calls)
        /\ \A x \in {"repo.get_by_id", "repo.exists", "repo.save", "repo.delete",
                     "publisher.publish"} : CountCalls(last.calls, x) <= 1

EventTypeOf(op) ==
    CASE op = "create_task" -> "task.created"
      [] op = "start_task" -> "task.started"
      [] op = "complete_task" -> "task.completed"
      [] op = "cancel_task" -> "task.cancelled"
      [] op = "assign_task" -> "task.assigned"

\* The records the last use case appended to the stream
NewRecords == SubSeq(stream, last.preLen + 1, Len(stream))

\* C10: a successful create, start, complete, cancel or assign publishes
\* exactly one event, of the type of the use case and with the id of the
\* task it changed; update, delete, list, statistics and a use case that
\* fails before its publish step publish none.
C10_OneEventPerSuccess ==
    /\ SubSeq(stream, 1, last.preLen) = SubSeq(stream, 1, Len(stream) - Len(NewRecords))
    /\ (last.op \in PublishingOps /\ last.err = NoError) =>
          /\ Len(NewRecords) = 1
          /\ NewRecords[1].event_type = Text(EventTypeOf(last.op))
          /\ JsonLoads(NewRecords[1].data).v.data.task_id = Str(last.id)
          /\ last.ret.id = last.id
          /\ last.id \in DOMAIN store /\ store[last.id] = last.ret
    /\ last.op \in {"update_task", "delete_task", "list_tasks",
                    "get_task_statistics"} => NewRecords = <<>>
    /\ (last.err # NoError /\ CountCalls(last.calls, "publisher.publish") = 0) =>
          NewRecords = <<>>

C10_Witness ==
    /\ last.op = "assign_task"
    /\ last.err = NoError
    /\ Len(stream) = last.preLen + 1

BlankTexts == {TxtEmpty, TxtBlank}

\* C11: create_task with an empty or whitespace-only title or description
\* fails with the business-rule violation before any side effect: the unit
\* of work is not entered, no collaborator is called, no record is
\* published and the table is unchanged.
C11_BlankCreateRejected ==
    (/\ last.op = "create_task"
     /\ last.args.title \in BlankTexts \/ last.args.description \in BlankTexts)
    => /\ last.err = BusinessRuleViolation
       /\ ~last.entered
       /\ last.calls = <<>>
       /\ store = last.pre
       /\ NewRecords = <<>>
       /\ uow.session = NoSession

C11_Witness ==
    /\ last.op = "create_task"
    /\ last.args.title = TxtPadB
    /\ last.args.description = TxtEmpty
    /\ last.err = BusinessRuleViolation
    /\ store # EmptyStore

\* C12: a successful create_task returns a Pending task with the given
\* priority and assignee, the trimmed title and description, created_at
\* equal to updated_at and no completed_at; save is called once, the unit
\* of work commits, and exactly one task.created record is published whose
\* task id, title, assignee and priority are those of the returned task.
C12_CreateSuccess ==
    (last.op = "create_task" /\ last.err = NoError) =>
        /\ last.ret.status = PENDING
        /\ last.ret.priority = last.args.priority
        /\ last.ret.assigned_to = last.args.assigned_to
        /\ last.ret.title = Strip(last.args.title)
        /\ last.ret.description = Strip(last.args.description)
        /\ last.args.title = TxtPadB => last.ret.title = TxtB
        /\ last.ret.created_at = last.ret.updated_at
        /\ last.ret.completed_at = NoTime
        /\ CountCalls(last.calls, "repo.save") = 1
        /\ CountCalls(last.calls, "session.commit") >= 1
        /\ CountCalls(last.calls, "session.rollback") = 0
        /\ last.ret.id \in DOMAIN store /\ store[last.ret.id] = last.ret
        /\ Len(NewRecords) = 1
        /\ NewRecords[1].event_type = Text("task.created")
        /\ LET e == JsonLoads(NewRecords[1].data).v.data
           IN /\ e.task_id = Str(last.ret.id)
              /\ e.title = last.ret.title
              /\ e.assigned_to = last.ret.assigned_to
              /\ e.priority = Text(last.ret.priority)

C12_Witness ==
    /\ last.op = "create_task"
    /\ last.err = NoError
    /\ last.args.title = TxtPadB
    /\ last.args.assigned_to = TxtA
    /\ last.args.priority = "high"

\* C13: assign_task with an empty or whitespace-only assignee fails with
\* the business-rule violation, calls neither save nor publish, and leaves
\* the stored task as it was, whether or not the task id exists.
C13_BlankAssigneeRejected ==
    (last.op = "assign_task" /\ last.args.assignee \in BlankTexts) =>
        /\ last.err = BusinessRuleViolation
        /\ CountCalls(last.calls, "repo.save") = 0
        /\ CountCalls(last.calls, "publisher.publish") = 0
        /\ store = last.pre
        /\ NewRecords = <<>>

C13_Witness ==
    /\ last.op = "assign_task"
    /\ last.args.assignee = TxtBlank
    /\ last.id \in DOMAIN store
    /\ TaskIds \ DOMAIN store # {}
    /\ last.err = BusinessRuleViolation

\* C14: delete_task on an id the repository does not have fails with
\* entity-not-found, does not call delete, does not commit the unit of work
\* but rolls it back, and leaves the table unchanged.
C14_DeleteUnknown ==
    (last.op = "delete_task" /\ last.id \notin DOMAIN last.pre) =>
        /\ last.err = EntityNotFound
        /\ CountCalls(last.calls, "repo.exists") = 1
        /\ CountCalls(last.calls, "repo.delete") = 0
        /\ CountCalls(last.calls, "session.commit") = 0
        /\ CountCalls(last.calls, "session.commit raised") = 0
        /\ CountCalls(last.calls, "session.rollback") = 1
        /\ store = last.pre

C14_Witness ==
    /\ last.op = "delete_task"
    /\ last.id \notin DOMAIN last.pre
    /\ last.pre # EmptyStore
    /\ last.err = EntityNotFound

\* The input of the last use case fails its pre-condition
InvalidInput ==
    \/ /\ last.op = "create_task"
       /\ last.args.title \in BlankTexts \/ last.args.description \in BlankTexts
    \/ /\ last.op = "assign_task"
       /\ last.args.assignee \in BlankTexts
    \/ /\ last.op = "update_task"
       /\ last.args.title = TxtBlank \/ last.args.description = TxtBlank

\* C19: in create_task, assign_task and update_task the input is validated
\* before the repository is asked for the entity: an invalid input gives
\* the business-rule violation, never entity-not-found, whether or not the
\* task id exists, and get_by_id, save and publish are not called.
C19_ValidateFirst ==
    InvalidInput =>
        /\ last.err = BusinessRuleViolation
        /\ CountCalls(last.calls, "repo.get_by_id") = 0
        /\ CountCalls(last.calls, "repo.save") = 0
        /\ CountCalls(last.calls, "publisher.publish") = 0

\* The use cases that run inside the unit of work
TransactionalOps == PublishingOps \cup {"update_task", "delete_task"}

\* C20: the unit of work is released on every exit path: after a use case
\* returned or raised there is no active session, the session it opened
\* has been closed (after the rollback, when the commit raised), and the
\* next use case can enter the same unit of work.
C20_Released ==
    /\ [](/\ uow.session = NoSession
          /\ last.err # RuntimeError
          /\ last.entered =>
                /\ CountCalls(last.calls, "uow.__enter__") = 1
                /\ CountCalls(last.calls, "session.close") = 1
                /\ last.calls[Len(last.calls)] = "session.close"
          /\ \A k \in DOMAIN last.calls :
                last.calls[k] = "session.commit raised" =>
                    /\ k < Len(last.calls)
                    /\ last.calls[k + 1] = "session.rollback"
                    /\ last.err = CommitError)
    /\ [][(last'.op \in TransactionalOps /\ ~InvalidInput') =>
              /\ last'.entered
              /\ Head(last'.calls) = "uow.__enter__"]_vars

C20_Witness ==
    /\ last.entered
    /\ last.err = CommitError
    /\ last.pre # EmptyStore
    /\ CountCalls(last.calls, "session.commit") = 1
    /\ uow.session = NoSession

\* The event types the notification consumer is to announce
NotifiedTypes ==
    {Text("task.created"), Text("task.completed"), Text("task.assigned"),
     Text("task.cancelled")}

\* The formatter that announces an event type
FormatterOf(event_type) ==
    CASE event_type = Text("task.created") -> "_handle_task_created"
      [] event_type = Text("task.completed") -> "_handle_task_completed"
      [] event_type = Text("task.assigned") -> "_handle_task_assigned"
      [] event_type = Text("task.cancelled") -> "_handle_task_cancelled"

\* The send_message calls made for record id so far
Sends(lg, id) == SelectSeq(lg, LAMBDA x : x.ev = "sent" /\ x.id = id)

\* The event types TaskService publishes under
PublishedTypes ==
    {Text("task.created"), Text("task.started"), Text("task.completed"),
     Text("task.cancelled"), Text("task.assigned")}

\* C15: for every record a use case published for a created, completed,
\* assigned or cancelled task, the notification consumer's handler, once it
\* has returned for the record, has made exactly one send_message call, by
\* the matching formatter and with the event's task id; for a record of any
\* other type a use case published it makes no call and returns.
C15_NotificationSent ==
    \A m \in DOMAIN stream :
        stream[m].event_type \in PublishedTypes =>
            /\ (\E k \in DOMAIN log : log[k].ev = "ok" /\ log[k].id = m) =>
                  IF stream[m].event_type \in NotifiedTypes
                  THEN /\ Len(Sends(log, m)) = 1
                       /\ Sends(log, m)[1].handler =
                              FormatterOf(stream[m].event_type)
                       /\ Sends(log, m)[1].task_id =
                              JsonLoads(stream[m].data).v.data.task_id
                  ELSE Sends(log, m) = <<>>
            /\ stream[m].event_type \notin NotifiedTypes =>
                  \A k \in DOMAIN log :
                      log[k].id = m => log[k].ev \in {"ok", "ack"}

\* C16: once run() has started no failure ends the loop: after a read, a
\* handler or an acknowledgment raised the loop goes on with the next
\* record or the next iteration; run() returns only from the loop test,
\* with the running flag cleared, and only stop() clears it; as long as the
\* flag is set the loop keeps coming back to its read.
C16_NeverFatal ==
    /\ [](cons.pc = "done" => ~cons.running)
    /\ [][/\ cons'.pc = "done" /\ cons.pc # "done" =>
                 cons.pc = "loop" /\ ~cons.running
          /\ cons.pc \in {"read", "process", "ack"} =>
                 cons'.pc \in {"read", "process", "ack", "loop"}
          /\ cons.running /\ ~cons'.running =>
                 cons'.pc = cons.pc /\ cons'.batch = cons.batch]_vars
    /\ []<>(cons.pc = "read" \/ ~cons.running)

C16_Witness ==
    /\ cons.running
    /\ cons.pc = "read"
    /\ \E k \in DOMAIN log : log[k].ev = "raised"
    /\ \E k \in DOMAIN log : log[k].ev = "ack raised"

\* C17: stop_all signals stop to every registered consumer, then waits
\* until the run() of every consumer has finished, and only then closes
\* them: no client is closed while any loop is running or a handler is in
\* flight, and stop() leaves a handler invocation in flight to finish.
C17_ShutdownOrder ==
    /\ [](/\ reg.pc \in {"gather", "close", "close client", "close none",
                          "stopped"} =>
                reg.signalled = DOMAIN Names
          /\ reg.pc \in {"close", "close client", "close none", "stopped"} =>
                \A k \in DOMAIN Names : reg.c[k].pc = "done"
          /\ \A k \in DOMAIN Names :
                reg.c[k].client # "open" => reg.c[k].pc = "done")
    /\ [][\A k \in DOMAIN Names :
            /\ reg.c[k].running /\ ~reg'.c[k].running =>
                  reg'.c[k].pc = reg.c[k].pc
            /\ reg.c[k].pc = "handler" =>
                  reg'.c[k].pc \in {"handler", "ack", "loop"}
            /\ reg.c[k].client # reg'.c[k].client =>
                  /\ reg.signalled = DOMAIN Names
                  /\ \A j \in DOMAIN Names : reg.c[j].pc = "done"]_vars

\* The errors a call gets from the unit of work when it is not the call's
\* own: 'Unit of work already active' and 'No active transaction', and the
\* close() of a session that is None
UnitOfWorkErrors == {RuntimeError, AttributeError}

\* The use cases no rule of the task rejects on the stored pending task,
\* whatever the other call of the same kind has done to it
Unconditional == {"create_task", "assign_task", "cancel_task"}

\* C18: two use cases invoked at the same time on the one TaskService of
\* the application, with its one unit of work, each run in a transaction
\* of their own and complete: neither call fails (no call gets an error
\* of the unit of work, and two calls that no rule of the task rejects
\* get no error at all), while a call is inside its with block the unit
\* of work holds the session made for that call, and the session of one
\* call is committed, rolled back or closed by that call only.
C18_IndependentTransactions ==
    /\ (\A r \in Requests : req[r].op \in Unconditional) =>
          \A r \in Requests : req[r].err = NoError
    /\ \A r \in Requests :
          /\ req[r].err \notin UnitOfWorkErrors
          /\ req[r].pc \notin {"call", "rejected", "enter", "done",
                                "responded"} =>
                uow[req[r].proc].session = r
          /\ \A k \in DOMAIN req[r].ops : req[r].ops[k].by = r

\* The place of the first call x in calls, 0 when there is none
IndexOf(calls, x) ==
    IF \E k \in DOMAIN calls : calls[k] = x
    THEN CHOOSE k \in DOMAIN calls :
            calls[k] = x /\ \A j \in 1..(k - 1) : calls[j] # x
    ELSE 0

\* C21: a successful mutating use case commits its unit of work exactly
\* once, and that commit is its last step, after save (or delete) and
\* publish, with only the release of the session behind it.
C21_CommitOnce ==
    (last.op \in TransactionalOps /\ last.err = NoError) =>
        /\ CountCalls(last.calls, "session.commit") = 1
        /\ IndexOf(last.calls, "session.commit") = Len(last.calls) - 1
        /\ last.calls[Len(last.calls)] = "session.close"
        /\ IndexOf(last.calls, "repo.save") < IndexOf(last.calls, "session.commit")
        /\ IndexOf(last.calls, "repo.delete") < IndexOf(last.calls, "session.commit")
        /\ IndexOf(last.calls, "publisher.publish")
              < IndexOf(last.calls, "session.commit")

RECURSIVE SumOf(_)
\* The sum of the values of a mapping
SumOf(f) ==
    IF DOMAIN f = {} THEN 0
    ELSE LET k == CHOOSE x \in DOMAIN f : TRUE
         IN f[k] + SumOf([x \in DOMAIN f \ {k} |-> f[x]])

\* The ids of the stored tasks of an assignee, of all tasks for None
MatchingIds(st, assigned_to) ==
    {i \in DOMAIN st : assigned_to = None \/ st[i].assigned_to = assigned_to}

\* The latest time a task of the table is created at: 0 for none
Latest(st) ==
    IF DOMAIN st = {} THEN 0
    ELSE LET times == {st[i].created_at : i \in DOMAIN st}
         IN CHOOSE t \in times : \A u \in times : u <= t

RECURSIVE CutTime(_, _, _, _, _)
\* The latest time from lo to hi at or after which n of the tasks ids are
\* created, where they are at or after lo
CutTime(st, ids, n, lo, hi) ==
    IF lo = hi THEN lo
    ELSE LET mid == (lo + hi + 1) \div 2
         IN IF Cardinality({i \in ids : st[i].created_at >= mid}) >= n
            THEN CutTime(st, ids, n, mid, hi)
            ELSE CutTime(st, ids, n, lo, mid - 1)

\* C22: get_task_statistics(assigned_to) returns the number of matching
\* stored tasks as total, in by_status an entry for exactly the statuses
\* some matching task has, each with its count, so that they sum to total,
\* and in by_priority the tally of the newest matching tasks up to the
\* fetch limit of 1000 (when tasks are created at the same time as the
\* 1000th, of any of them that make up the 1000): its values sum to
\* min(total, 1000), and are the exact counts of the priorities when total
\* is within the limit.
C22_Statistics ==
    last.op = "get_task_statistics" =>
        LET ids == MatchingIds(store, last.args.assigned_to)
            r == last.ret
            cut == IF Cardinality(ids) > StatsLimit
                   THEN CutTime(store, ids, StatsLimit, 0, Latest(store))
                   ELSE 0
            newer == {i \in ids : store[i].created_at > cut}
            newest == IF Cardinality(ids) > StatsLimit
                      THEN {i \in ids : store[i].created_at >= cut}
                      ELSE ids
            Count(among, p) ==
                Cardinality({i \in among : store[i].priority = p})
        IN /\ r.total = Cardinality(ids)
           /\ DOMAIN r.by_status = {store[i].status : i \in ids}
           /\ \A s \in DOMAIN r.by_status :
                 r.by_status[s] = Cardinality({i \in ids : store[i].status = s})
           /\ SumOf(r.by_status) = r.total
           /\ DOMAIN r.by_priority \subseteq {store[i].priority : i \in newest}
           /\ \A i \in newer : store[i].priority \in DOMAIN r.by_priority
           /\ \A p \in DOMAIN r.by_priority :
                 /\ r.by_priority[p] >= 1
                 /\ r.by_priority[p] >= Count(newer, p)
                 /\ r.by_priority[p] <= Count(newest, p)
           /\ SumOf(r.by_priority) = Min(r.total, StatsLimit)
           /\ r.total <= StatsLimit =>
                 /\ DOMAIN r.by_priority = {store[i].priority : i \in ids}
                 /\ \A p \in DOMAIN r.by_priority :
                       r.by_priority[p] = Count(ids, p)

C22_Witness ==
    /\ last.op = "get_task_statistics"
    /\ last.args.assigned_to = TxtA
    /\ last.ret.total > StatsLimit
    /\ Cardinality(DOMAIN store) > last.ret.total
    /\ SumOf(last.ret.by_priority) = StatsLimit
    /\ SumOf(last.ret.by_status) = last.ret.total
    /\ \E p \in DOMAIN last.ret.by_priority :
          last.ret.by_priority[p] <
              Cardinality({i \in DOMAIN store :
                              /\ store[i].assigned_to = TxtA
                              /\ store[i].priority = p})

\* C27: a successful create, start, complete, cancel or assign runs in the
\* order enter the unit of work, mutate the task, save, publish, commit;
\* in any run an event is published only after the save of the mutated
\* task returned, and no commit comes before the publish.
C27_StepOrder ==
    last.op \in PublishingOps =>
        /\ last.err = NoError =>
              /\ IndexOf(last.calls, "uow.__enter__") = 1
              /\ 1 < IndexOf(last.calls, "repo.save")
              /\ IndexOf(last.calls, "repo.save")
                    < IndexOf(last.calls, "publisher.publish")
              /\ IndexOf(last.calls, "publisher.publish")
                    < IndexOf(last.calls, "session.commit")
              /\ last.ret.updated_at = clock
              /\ store[last.id] = last.ret
        /\ IndexOf(last.calls, "publisher.publish") > 0 =>
              /\ 0 < IndexOf(last.calls, "repo.save")
              /\ IndexOf(last.calls, "repo.save")
                    < IndexOf(last.calls, "publisher.publish")
              /\ last.id \in DOMAIN store
              /\ store[last.id].updated_at = clock
        /\ IndexOf(last.calls, "session.commit") > 0 =>
              /\ 0 < IndexOf(last.calls, "publisher.publish")
              /\ IndexOf(last.calls, "publisher.publish")
                    < IndexOf(last.calls, "session.commit")

C27_Witness ==
    /\ last.op = "start_task"
    /\ last.err = PublishError
    /\ last.id \in DOMAIN store
    /\ store[last.id].status = IN_PROGRESS

\* C30: for a successful assign_task, with or without blanks around the
\* assignee, the assigned_to of the published task.assigned event is the
\* assigned_to stored on the task and returned with it.
C30_EventAssignee ==
    (last.op = "assign_task" /\ last.err = NoError) =>
        /\ Len(NewRecords) = 1
        /\ store[last.id].assigned_to = last.ret.assigned_to
        /\ JsonLoads(NewRecords[1].data).v.data.assigned_to = last.ret.assigned_to

\* C23: repository.save is an upsert.  Saving a task whose id is not
\* stored adds one record, the task; saving a task whose id is stored
\* leaves the number of records as it is and gives the record the task's
\* title, description, status, priority, assignee, updated_at and
\* completed_at while its id and created_at stay; the task returned is the
\* stored record; a delete removes the one record of the id.
C23_SaveUpserts ==
    /\ last.op = "repo.save" =>
          LET t == last.args.task
              n == Cardinality(DOMAIN last.pre)
          IN /\ t.id \in DOMAIN store
             /\ last.ret = store[t.id]
             /\ \A i \in DOMAIN store \ {t.id} :
                   i \in DOMAIN last.pre /\ store[i] = last.pre[i]
             /\ t.id \notin DOMAIN last.pre =>
                   /\ Cardinality(DOMAIN store) = n + 1
                   /\ store[t.id] = t
             /\ t.id \in DOMAIN last.pre =>
                   /\ Cardinality(DOMAIN store) = n
                   /\ store[t.id].id = t.id
                   /\ store[t.id].created_at = last.pre[t.id].created_at
                   /\ Assigned(store[t.id]) = Assigned(t)
    /\ last.op = "repo.delete" =>
          /\ last.id \notin DOMAIN store
          /\ last.ret.deleted = (last.id \in DOMAIN last.pre)

\* The fields of an event object that are its type-specific data
DataFields(e) == DOMAIN e \ {"class", "event_id", "occurred_at"}

\* The type of the field f of the event object e: as the dataclass
\* declares it, and NoneType for an optional field that is None
FieldType(e, f) ==
    IF f \in {"event_id", "task_id"} THEN "UUID"
    ELSE IF f = "occurred_at" THEN "datetime"
    ELSE IF e[f] = None THEN "NoneType"
    ELSE "str"

\* The type of a string or a null json.loads read
LoadedType(v) == IF v = None THEN "NoneType" ELSE "str"

\* a == b for a of type ta and b of type tb: values of two of these types
\* are never equal
Equal(ta, a, tb, b) == ta = tb /\ a = b

\* C24 as stated: an event of any of the five variants, with any of its
\* optional fields present or None, that is serialized with to_dict,
\* published and decoded with _parse_message comes back as a mapping whose
\* event id, occurrence time and type-specific data fields equal the
\* values of the event's fields, a None field read back as None.
C24_RoundTripValues ==
    last.op = "_parse_message" =>
        LET e == last.args.event
            m == last.ret.data
        IN /\ Equal(FieldType(e, "event_id"), e.event_id,
                    LoadedType(m.event_id), m.event_id)
           /\ Equal(FieldType(e, "occurred_at"), e.occurred_at,
                    LoadedType(m.occurred_at), m.occurred_at)
           /\ DOMAIN m.data = DataFields(e)
           /\ \A f \in DataFields(e) :
                 Equal(FieldType(e, f), e[f], LoadedType(m.data[f]), m.data[f])

\* C24, amended: an event of any of the five variants, with any of its
\* optional fields present or None, that is serialized with to_dict,
\* published and decoded with _parse_message comes back, under the name it
\* was published with, as the mapping to_dict built: the event id and the
\* task id as the text str() gives for them, the occurrence time as its
\* isoformat() text, the class name, and every other type-specific field
\* equal to the event's, a None field read back as None.
C24_RoundTrip ==
    last.op = "_parse_message" =>
        LET e == last.args.event
            m == last.ret.data
        IN /\ last.ret.event_type = Text(EventName(e.class))
           /\ DOMAIN m = {"event_type", "event_id", "occurred_at", "data"}
           /\ m.event_type = Text(e.class)
           /\ m.event_id = Str(e.event_id)
           /\ m.occurred_at = IsoFormat(e.occurred_at)
           /\ DOMAIN m.data = DataFields(e)
           /\ m.data.task_id = Str(e.task_id)
           /\ \A f \in DataFields(e) \ {"task_id"} :
                 Equal(FieldType(e, f), e[f], LoadedType(m.data[f]), m.data[f])

C24_Witness ==
    /\ last.op = "_parse_message"
    /\ last.args.event.class = "TaskCancelledEvent"
    /\ last.args.event.cancelled_by = None
    /\ last.args.event.reason = TxtJson
    /\ \E k \in DOMAIN stream[1].data :
          /\ k + 3 <= Len(stream[1].data)
          /\ SubSeq(stream[1].data, k, k + 3) = <<"\\", "\"", "\\", "\\">>
    /\ last.ret.data.data.cancelled_by = None
    /\ last.ret.data.data.reason = TxtJson

\* C25: an endpoint answers 404 when the service raised entity-not-found,
\* 422 when it raised a business-rule violation or the entity's
\* ValueError, 500 for any other failure, and the delete endpoint answers
\* 404 as well when delete_task returned False.
C25_StatusMapping ==
    \A r \in Requests :
        req[r].pc = "responded" =>
            /\ req[r].err = EntityNotFound => req[r].http = 404
            /\ req[r].err \in {BusinessRuleViolation, ValueError} =>
                  req[r].http = 422
            /\ req[r].err \notin {NoError, EntityNotFound, BusinessRuleViolation,
                                  ValueError} => req[r].http = 500
            /\ (req[r].op = "delete_task" /\ req[r].err = NoError
                  /\ ~req[r].deleted) => req[r].http = 404

\* C26: of two delete_task calls for the stored task running at the same
\* time exactly one returns True, the other raises entity-not-found or
\* returns False, neither fails with another error, and the task is gone
\* once both have finished.
C26_DeleteRace ==
    (\A r \in Requests : req[r].op = "delete_task" /\ req[r].pc = "responded") =>
        /\ Cardinality({r \in Requests : req[r].err = NoError /\ req[r].deleted}) = 1
        /\ \A r \in Requests : req[r].err \in {NoError, EntityNotFound}
        /\ StoredTask.id \notin DOMAIN store

\* The records of the stream that tell the end of task id
EndRecords(id) ==
    {m \in DOMAIN stream :
        /\ stream[m].event_type \in {Text("task.completed"),
                                      Text("task.cancelled")}
        /\ JsonLoads(stream[m].data).v.data.task_id = Str(id)}

\* C28: while start_task, complete_task and cancel_task calls for one task
\* run at the same time, a save never changes the status of a stored task
\* that is Completed or Cancelled, and at most one task.completed or
\* task.cancelled event is published for the task.
C28_TerminalStatusKept ==
    (\A r \in Requests : req[r].op \in Transitions) =>
        /\ (/\ last.op = "repo.save"
            /\ last.id \in DOMAIN last.pre
            /\ last.pre[last.id].status \in {COMPLETED, CANCELLED}) =>
                store[last.id].status = last.pre[last.id].status
        /\ Cardinality(EndRecords(StoredTask.id)) <= 1

\* C29: once stop_all is called, at any point after start_all, also before
\* a run() has set its _running flag, every consumer loop eventually exits
\* and stop_all eventually returns; a stop_all that a further signal
\* cancelled at its await has ended as well.
C29_ShutdownTerminates ==
    (reg.pc = "signal") ~>
        /\ reg.pc \in {"stopped", "aborted"}
        /\ \A k \in DOMAIN Names : reg.c[k].pc = "done"

====
